---- MODULE Spec2Model ----
(***************************************************************************)
(* csfd-scraper: the rate-limited, retrying fetch layer (client.rs), the   *)
(* scraper API built on it (scraper.rs) and the extractors the API runs on *)
(* the documents it fetches (parser/search.rs, series.rs, episodes.rs).    *)
(*                                                                         *)
(* One CsfdScraper is shared by a caller of the scraper API and by tasks   *)
(* that call RateLimiter::acquire() on the same limiter, again and again.  *)
(* The code between two suspension points of a task is one step.           *)
(* returns counts the acquire() calls that have returned, up to            *)
(* MaxReturns; since_return is the age of the latest return and gap the    *)
(* time between the latest two.                                            *)
(*                                                                         *)
(* Time is in milliseconds and advances in steps of TickMs.  An Instant is *)
(* kept as its age (Instant::elapsed) and a sleep as the time it has left: *)
(* the code reads the clock only through elapsed() and sleep().  An age is *)
(* not counted beyond min_interval, the only value it is compared with.    *)
(***************************************************************************)
EXTENDS Integers, Sequences, FiniteSets, TLC

(* ------------------------------ bounds -------------------------------- *)
NumAcquirers == 1
MaxReturns == 2
TickMs == 500
MaxQueryLen == 2
MaxPage == 2
MaxId == 1
MaxSegmentLen == 3
MaxRatingLen == 4
MaxRows == 2
MaxSeasonBlocks == 3
NumCommands == 2

(* the caller of the scraper API, and the tasks that call acquire() *)
Callers == {0}
Acquirers == 1..NumAcquirers
Procs == Callers \cup Acquirers

(* ------------------------- program constants -------------------------- *)
MAX_RETRIES == 3
BASE_RETRY_DELAY_MS == 1000
CSFD_BASE_URL == "https://www.csfd.cz"

(* requests_per_second values a ClientConfig is built with *)
Rates == {1, 2}

(* characters of a query: a whitespace character and a letter *)
Chars == {" ", "a"}
(* a query with whitespace inside, which trimming leaves and encoding turns *)
(* into %20                                                                *)
SpacedQuery == <<"a", " ", "a">>
Queries == UNION {[1..n -> Chars] : n \in 0..MaxQueryLen} \cup {SpacedQuery}
Pages == 0..MaxPage
Ids == 0..MaxId

(* HTTP status codes a response can carry *)
StatusCodes == {200, 304, 403, 404, 429, 503}

(* what one current-page selector finds in a listing page: no element,     *)
(* an element whose trimmed text is not a u32, or one whose text is a page *)
Absent == [found |-> FALSE, numeric |-> FALSE, value |-> 0]
NotANumber == [found |-> TRUE, numeric |-> FALSE, value |-> 0]
PageTexts == {Absent, NotANumber} \cup
             {[found |-> TRUE, numeric |-> TRUE, value |-> n] : n \in {1, MaxPage + 1}}

VARIABLES min_interval, elapsed, holder, waiters, pc, sleep_left, acquires,
          call, url, attempt, outcome, seen, result, gets, backoffs,
          extracted, returns, since_return, gap,
          fetches, fetched, parsed, dropped_at,
          parse_fn, parse_in, parse_out,
          scraper_guard, scraper_queue, command

vars == <<min_interval, elapsed, holder, waiters, pc, sleep_left, acquires,
          call, url, attempt, outcome, seen, result, gets, backoffs,
          extracted, returns, since_return, gap,
          fetches, fetched, parsed, dropped_at,
          parse_fn, parse_in, parse_out,
          scraper_guard, scraper_queue, command>>

(* an extractor applied to a document on its own: which one, to what, and  *)
(* what it returned                                                        *)
parser_vars == <<parse_fn, parse_in, parse_out>>

(* the GUI bridge: the task that holds the lock of ScraperState.scraper,   *)
(* the commands queued for it, and each command's call and position        *)
bridge_vars == <<scraper_guard, scraper_queue, command>>

(* what an operation of the scraper API has seen of its fetch and of its   *)
(* extractor: the calls of fetch, what fetch returned, what the extractor  *)
(* returned, and where the task was when its future was dropped            *)
op_vars == <<fetches, fetched, parsed, dropped_at>>

(* the fetch of a caller, beyond its position *)
fetch_vars == <<call, url, attempt, outcome, seen, result, acquires, gets, backoffs,
               extracted, op_vars>>

(* ------------------------------ strings ------------------------------- *)
IsWhitespace(c) == c = " "

RECURSIVE TrimStart(_)
TrimStart(s) ==
    IF s # <<>> /\ IsWhitespace(Head(s)) THEN TrimStart(Tail(s)) ELSE s

RECURSIVE TrimEnd(_)
TrimEnd(s) ==
    IF s # <<>> /\ IsWhitespace(s[Len(s)])
    THEN TrimEnd(SubSeq(s, 1, Len(s) - 1)) ELSE s

(* the query taken as it is *)
TrimNothing(s) == s

Trim(s) == TrimEnd(TrimStart(s))

(* urlencoding::encode: unreserved characters stay, the rest is %XX *)
EncodeChar(c) == IF c = " " THEN "%20" ELSE c
UrlEncode(s) == [i \in 1..Len(s) |-> EncodeChar(s[i])]

(* ------------------------------ results ------------------------------- *)
NoCall == [op |-> "none", query |-> <<>>, page |-> 0, id |-> 0, season |-> 0]
NoOutcome == [kind |-> "none", code |-> 0]
NoResult == [tag |-> "none", id |-> 0, url |-> <<>>, current_page |-> 0,
             has_next_page |-> FALSE, value |-> <<>>]

Err(tag) == [NoResult EXCEPT !.tag = tag]
InvalidUrl == Err("InvalidUrl")
InvalidId(id) == [Err("InvalidId") EXCEPT !.id = id]
NotFound(u) == [Err("NotFound") EXCEPT !.url = u]
HttpError == Err("HttpError")
RateLimited == Err("RateLimited")
ElementNotFound == Err("ElementNotFound")
Panicked == Err("panic")

(* --------------------------- rate limiter ----------------------------- *)
Min(a, b) == IF a < b THEN a ELSE b
Max(a, b) == IF a > b THEN a ELSE b

(* Duration::from_secs_f64(1.0 / requests_per_second), in milliseconds *)
MinInterval(requests_per_second) == 1000 \div requests_per_second

(* last_request set to Instant::now() itself *)
InitialElapsedNow(interval) == 0

(* last_request is Instant::now() - min_interval: its age is min_interval *)
InitialElapsed(interval) == interval

RateLimiterNew(requests_per_second) ==
    [min_interval |-> MinInterval(requests_per_second),
     elapsed |-> InitialElapsed(MinInterval(requests_per_second))]

(* min_interval - elapsed, used when elapsed < min_interval *)
WaitTime(last_elapsed, interval) == interval - last_elapsed

(* the comparison turned around *)
MustWaitInverted(last_elapsed, interval) == last_elapsed > interval

MustWait(last_elapsed, interval) == last_elapsed < interval

(* ------------------------------ parsing ------------------------------- *)
ParsesAsPage(text) == text.found /\ text.numeric

(* Some(page) is <<page>>, None is <<>> *)
extract_current_page(body) ==
    IF ParsesAsPage(body.pagination_active) THEN <<body.pagination_active.value>>
    ELSE IF ParsesAsPage(body.paging_current) THEN <<body.paging_current.value>>
    ELSE IF ParsesAsPage(body.pagination_current) THEN <<body.pagination_current.value>>
    ELSE <<>>

UnwrapOr(opt, default) == IF opt = <<>> THEN default ELSE opt[1]

(* ------------------------------- texts -------------------------------- *)
(* A text is a sequence of symbols.  A symbol is a character (a digit, a   *)
(* punctuation character, a space, one of the letters S s E e x) or a word *)
(* written as one symbol: "film" is the path component film, "season" one  *)
(* of the season word-forms the code looks for (série, season, řada),      *)
(* "episode" one of episode, epizoda, díl, "epizod" the word epizod, and   *)
(* "a" and "b" are any other letters.                                      *)
DigitChars == <<"0", "1", "2", "3", "4", "5", "6", "7", "8", "9">>
IsDigit(c) == \E i \in DOMAIN DigitChars : DigitChars[i] = c
DigitValue(c) == (CHOOSE i \in DOMAIN DigitChars : DigitChars[i] = c) - 1
AllDigits(s) == \A i \in 1..Len(s) : IsDigit(s[i])

RECURSIVE Decimal(_)
Decimal(s) ==
    IF s = <<>> THEN 0
    ELSE Decimal(SubSeq(s, 1, Len(s) - 1)) * 10 + DigitValue(s[Len(s)])

SetMin(S) == CHOOSE i \in S : \A j \in S : i <= j
SetMax(S) == CHOOSE i \in S : \A j \in S : i >= j

(* None is <<>>, Some(v) is <<v>> *)
None == <<>>
Some(v) == <<v>>

(* the largest u8 *)
U8_MAX == 255

(* the digits of a str::parse into an unsigned integer: a leading + is     *)
(* accepted, one digit at least must follow                                *)
Unsigned(s) == IF s # <<>> /\ Head(s) = "+" THEN Tail(s) ELSE s

(* parse::<u32>(): the texts of this model are too short to exceed u32 *)
parse_u32(s) ==
    IF Unsigned(s) # <<>> /\ AllDigits(Unsigned(s))
    THEN Some(Decimal(Unsigned(s))) ELSE None

(* parse::<u8>() of a run of digits *)
parse_u8(s) ==
    IF Unsigned(s) # <<>> /\ AllDigits(Unsigned(s)) /\ Decimal(Unsigned(s)) <= U8_MAX
    THEN Some(Decimal(Unsigned(s))) ELSE None

(* s.split(c).next(): the part of s before the first c *)
RECURSIVE Before(_, _)
Before(s, c) ==
    IF s = <<>> \/ Head(s) = c THEN <<>> ELSE <<Head(s)>> \o Before(Tail(s), c)

(* s.split(c) *)
RECURSIVE Split(_, _)
Split(s, c) ==
    IF s = <<>> THEN <<<<>>>>
    ELSE IF Head(s) = c THEN <<<<>>>> \o Split(Tail(s), c)
    ELSE LET rest == Split(Tail(s), c) IN
         <<<<Head(s)>> \o Head(rest)>> \o Tail(rest)

(* s.trim_matches(c) *)
RECURSIVE TrimStartMatches(_, _)
TrimStartMatches(s, c) ==
    IF s # <<>> /\ Head(s) = c THEN TrimStartMatches(Tail(s), c) ELSE s

RECURSIVE TrimEndMatches(_, _)
TrimEndMatches(s, c) ==
    IF s # <<>> /\ s[Len(s)] = c
    THEN TrimEndMatches(SubSeq(s, 1, Len(s) - 1), c) ELSE s

TrimMatches(s, c) == TrimEndMatches(TrimStartMatches(s, c), c)

(* the places where pat occurs in s *)
Occurrences(s, pat) ==
    {i \in 1..(Len(s) - Len(pat) + 1) : SubSeq(s, i, i + Len(pat) - 1) = pat}

(* s.find(pat): the place of the first occurrence *)
Find(s, pat) ==
    IF Occurrences(s, pat) = {} THEN None ELSE Some(SetMin(Occurrences(s, pat)))

(* s.contains(pat) *)
Contains(s, pat) == Occurrences(s, pat) # {}

(* n digits stand at place i of s *)
DigitsAt(s, i, n) == i + n - 1 <= Len(s) /\ \A j \in i..(i + n - 1) : IsDigit(s[j])

(* a symbol of the set stands at place i of s *)
SymAt(s, i, set) == i >= 1 /\ i <= Len(s) /\ s[i] \in set

(* the length of the longest run of digits that starts at place i of s *)
DigitRun(s, i) == SetMax({n \in 0..(Len(s) + 1 - i) : DigitsAt(s, i, n)})

(* the place of the first symbol at or after i that is no whitespace *)
SkipSpace(s, i) ==
    SetMin({j \in i..(Len(s) + 1) : j = Len(s) + 1 \/ ~IsWhitespace(s[j])})

(* Regex::captures: the match at the first place where there is one;      *)
(* matches[i] is the match at place i, None when there is none             *)
FirstMatch(matches) ==
    IF \E i \in 1..Len(matches) : matches[i] # None
    THEN matches[SetMin({i \in 1..Len(matches) : matches[i] # None})]
    ELSE None

(* ---------------------------- identifiers ----------------------------- *)
FilmMarker == <<"/", "film", "/">>

(* an id of 0 is returned like any other *)
extract_csfd_id_any(href) ==
    IF Find(href, FilmMarker) = None THEN None
    ELSE parse_u32(Before(Before(SubSeq(href, Find(href, FilmMarker)[1] + Len(FilmMarker),
                                        Len(href)), "/"), "-"))

extract_csfd_id(href) ==
    LET film_idx == Find(href, FilmMarker) IN
    IF film_idx = None THEN None
    ELSE LET after_film == SubSeq(href, film_idx[1] + Len(FilmMarker), Len(href))
             segment == Before(after_film, "/")
             id_str == Before(segment, "-")
             id == parse_u32(id_str)
         IN IF id = None THEN None
            ELSE IF id[1] > 0 THEN Some(id[1]) ELSE None

(* the id a segment starts with, when it is a positive u32 *)
SegmentId(segment) ==
    LET id == parse_u32(Before(segment, "-")) IN
    IF id # None /\ id[1] > 0 THEN id ELSE None

(* the places i of a part "film" that has a part two places on with an id *)
NestedIdPlaces(parts) ==
    {i \in 1..Len(parts) :
        parts[i] = <<"film">> /\ i + 2 <= Len(parts) /\ SegmentId(parts[i + 2]) # None}

extract_season_id(href) ==
    LET parts == Split(TrimMatches(href, "/"), "/") IN
    IF NestedIdPlaces(parts) = {} THEN None
    ELSE SegmentId(parts[SetMin(NestedIdPlaces(parts)) + 2])

extract_episode_id(href) ==
    LET parts == Split(TrimMatches(href, "/"), "/") IN
    IF NestedIdPlaces(parts) = {} THEN None
    ELSE SegmentId(parts[SetMin(NestedIdPlaces(parts)) + 2])

(* ---------------------------- episode texts --------------------------- *)
(* (?i)S(\d{1,2})E(\d{1,2}) at place i: the groups as numbers *)
CodeAt(s, i) ==
    IF \E k \in {1, 2} :
          /\ SymAt(s, i, {"S", "s"}) /\ DigitsAt(s, i + 1, k)
          /\ SymAt(s, i + 1 + k, {"E", "e"}) /\ DigitsAt(s, i + 2 + k, 1)
    THEN LET k == SetMax({n \in {1, 2} :
                     /\ DigitsAt(s, i + 1, n)
                     /\ SymAt(s, i + 1 + n, {"E", "e"}) /\ DigitsAt(s, i + 2 + n, 1)})
             m == IF DigitsAt(s, i + 2 + k, 2) THEN 2 ELSE 1
         IN Some(<<Decimal(SubSeq(s, i + 1, i + k)),
                   Decimal(SubSeq(s, i + 2 + k, i + 1 + k + m))>>)
    ELSE None

(* re.captures(text) of that pattern *)
CodeCaptures(text) == FirstMatch([i \in 1..Len(text) |-> CodeAt(text, i)])

(* (\d{1,2})x(\d{1,2}) at place i *)
CrossAt(s, i) ==
    IF \E k \in {1, 2} :
          DigitsAt(s, i, k) /\ SymAt(s, i + k, {"x"}) /\ DigitsAt(s, i + k + 1, 1)
    THEN LET k == SetMax({n \in {1, 2} :
                     DigitsAt(s, i, n) /\ SymAt(s, i + n, {"x"})
                     /\ DigitsAt(s, i + n + 1, 1)})
             m == IF DigitsAt(s, i + k + 1, 2) THEN 2 ELSE 1
         IN Some(<<Decimal(SubSeq(s, i, i + k - 1)),
                   Decimal(SubSeq(s, i + k + 1, i + k + m))>>)
    ELSE None

(* re.captures(text) of that pattern *)
CrossCaptures(text) == FirstMatch([i \in 1..Len(text) |-> CrossAt(text, i)])

(* Some(<<season, episode>>) or None *)
parse_episode_code(text) ==
    IF CodeCaptures(text) # None THEN CodeCaptures(text)
    ELSE CrossCaptures(text)

(* (?:episode|epizoda|díl)\s*(\d{1,2}) at place i: the digits *)
EpisodeWordAt(s, i) ==
    IF SymAt(s, i, {"episode"}) /\ DigitsAt(s, SkipSpace(s, i + 1), 1)
    THEN Some(SubSeq(s, SkipSpace(s, i + 1),
                     SkipSpace(s, i + 1)
                       + (IF DigitsAt(s, SkipSpace(s, i + 1), 2) THEN 1 ELSE 0)))
    ELSE None

(* re.captures(text) of that pattern *)
EpisodeWordCaptures(text) ==
    FirstMatch([i \in 1..Len(text) |-> EpisodeWordAt(text, i)])

(* ^(\d{1,2})\.\s, then (?i)(?:episode|epizoda|díl)\s*(\d{1,2}) *)
extract_episode_number_from_name(name) ==
    IF \E k \in {1, 2} :
          DigitsAt(name, 1, k) /\ SymAt(name, k + 1, {"."})
          /\ SymAt(name, k + 2, {" "})
    THEN parse_u8(SubSeq(name, 1, DigitRun(name, 1)))
    ELSE IF EpisodeWordCaptures(name) # None
    THEN parse_u8(EpisodeWordCaptures(name)[1])
    ELSE None

(* (?i)(?:série|season|řada|s)\s*(\d+) at place i: the digits *)
SeasonNumberAt(s, i) ==
    IF SymAt(s, i, {"season", "S", "s"}) /\ DigitsAt(s, SkipSpace(s, i + 1), 1)
    THEN Some(SubSeq(s, SkipSpace(s, i + 1),
                     SkipSpace(s, i + 1) + DigitRun(s, SkipSpace(s, i + 1)) - 1))
    ELSE None

(* re.captures(text) of that pattern *)
SeasonNumberCaptures(text) ==
    FirstMatch([i \in 1..Len(text) |-> SeasonNumberAt(text, i)])

extract_season_number_from_text(text) ==
    IF SeasonNumberCaptures(text) # None
    THEN parse_u8(SeasonNumberCaptures(text)[1])
    ELSE None

(* "%" stands at place p of s or after whitespace that starts there *)
PercentAfter(s, p) == SymAt(s, SkipSpace(s, p), {"%"})

(* the ways (\d{1,3}(?:\.\d+)?)\s*% matches at place i: k digits, and f    *)
(* digits after a point (f = 0: no point)                                  *)
RatingMatches(s, i) ==
    {m \in (1..3) \X (0..Len(s)) :
        /\ DigitsAt(s, i, m[1])
        /\ m[2] > 0 => SymAt(s, i + m[1], {"."}) /\ DigitsAt(s, i + m[1] + 1, m[2])
        /\ PercentAfter(s, IF m[2] > 0 THEN i + m[1] + 1 + m[2] ELSE i + m[1])}

(* the match the greedy search finds first: most digits, longest fraction *)
Greedy(M) ==
    CHOOSE m \in M : \A n \in M : m[1] > n[1] \/ (m[1] = n[1] /\ m[2] >= n[2])

Pow10(f) == 10 ^ f

(* the number matched at place i, as num / den *)
RatingAt(s, i) ==
    IF RatingMatches(s, i) = {} THEN None
    ELSE LET m == Greedy(RatingMatches(s, i)) IN
         Some([num |-> Decimal(SubSeq(s, i, i + m[1] - 1)) * Pow10(m[2])
                         + Decimal(SubSeq(s, i + m[1] + 1, i + m[1] + m[2])),
               den |-> Pow10(m[2])])

(* re.captures(text) of that pattern *)
RatingCaptures(text) == FirstMatch([i \in 1..Len(text) |-> RatingAt(text, i)])

(* (0.0..=100.0).contains(&rating) *)
InRange(rating) == 0 <= rating.num /\ rating.num <= 100 * rating.den

(* the clamped value is returned *)
parse_rating_clamped(text) ==
    IF RatingCaptures(text) # None
    THEN IF InRange(RatingCaptures(text)[1])
         THEN RatingCaptures(text)
         ELSE Some([num |-> 100, den |-> 1])
    ELSE None

(* the texts of this model are too short for the rounding of the f32 parse *)
(* to move a number across 100                                             *)
parse_rating(text) ==
    IF RatingCaptures(text) # None /\ InRange(RatingCaptures(text)[1])
    THEN RatingCaptures(text)
    ELSE None

RECURSIVE ToDigits(_)
ToDigits(n) ==
    IF n < 10 THEN <<DigitChars[n + 1]>>
    ELSE ToDigits(n \div 10) \o <<DigitChars[(n % 10) + 1]>>

(* {:02}: two digits at least, zeros in front *)
Format02(n) == IF n < 10 THEN <<"0">> \o ToDigits(n) ELSE ToDigits(n)

(* format!("S{:02}E{:02}", season_number, episode_number) *)
FormatEpisodeCode(season_number, episode_number) ==
    <<"S">> \o Format02(season_number) \o <<"E">> \o Format02(episode_number)

(* the regex of clean_episode_name, anchored at the start: S, one or two  *)
(* digits, E, one or two digits, whitespace, - or :, whitespace; or one or *)
(* two digits, a point, whitespace.  The lengths of the prefixes of name   *)
(* it can match.                                                           *)
CleanPrefixLengths(name) ==
    {SkipSpace(name, SkipSpace(name, 3 + km[1] + km[2]) + 1) - 1 :
        km \in {n \in {1, 2} \X {1, 2} :
            /\ SymAt(name, 1, {"S"}) /\ DigitsAt(name, 2, n[1])
            /\ SymAt(name, 2 + n[1], {"E"}) /\ DigitsAt(name, 3 + n[1], n[2])
            /\ SymAt(name, SkipSpace(name, 3 + n[1] + n[2]), {"-", ":"})}}
    \cup
    {SkipSpace(name, k + 2) - 1 :
        k \in {n \in {1, 2} : DigitsAt(name, 1, n) /\ SymAt(name, n + 1, {"."})}}

(* re.replace(name, "").trim() *)
clean_episode_name(name) ==
    IF CleanPrefixLengths(name) = {} THEN Trim(name)
    ELSE Trim(SubSeq(name, SetMax(CleanPrefixLengths(name)) + 1, Len(name)))

(* ------------------------------ documents ----------------------------- *)
(* An element of a document that a parser looks at (a result article, a    *)
(* title block, a table row, a list item, a link): the first link in it    *)
(* that the parser's selector finds, the text before the link, the text    *)
(* after it (the info span of a title block, the last cell of a row), and  *)
(* whether it holds a season-header cell.                                  *)
NoLink == [present |-> FALSE, href |-> <<>>, text |-> <<>>]
Link(href, text) == [present |-> TRUE, href |-> href, text |-> text]
Block(lead, link, tail, header_cell) ==
    [lead |-> lead, link |-> link, tail |-> tail, header_cell |-> header_cell]

(* element.text().collect::<String>() *)
ElementText(el) == el.lead \o el.link.text \o el.tail

(* a document without any of the elements the parsers select *)
EmptyDocument ==
    [pagination_active |-> Absent, paging_current |-> Absent,
     pagination_current |-> Absent,
     articles |-> <<>>,
     names |-> <<None, None, None, None, None>>,
     original_names |-> <<None, None, None, None>>,
     years |-> <<>>, genres |-> <<>>, countries |-> <<>>, origin |-> None,
     title_blocks |-> <<>>, tables |-> <<>>, items |-> <<>>,
     season_lists |-> <<>>, season_links |-> <<>>, next_links |-> <<>>]

(* for x in xs { if let Some(v) = f(x) { out.push(v) } }: the values of    *)
(* the options that are Some, in their order; options[i] is f(xs[i])       *)
FilterMap(options) ==
    LET out[i \in 0..Len(options)] ==
            IF i = 0 THEN <<>>
            ELSE IF options[i] = None THEN out[i - 1]
            ELSE Append(out[i - 1], options[i][1])
    IN  out[Len(options)]

Ok(v) == [NoResult EXCEPT !.tag = "Ok", !.value = v]

(* ------------------------- parser/episodes.rs -------------------------- *)
Episode(csfd_id, name, season_number, episode_number, rating, href) ==
    [csfd_id |-> csfd_id, name |-> name,
     episode_code |-> FormatEpisodeCode(season_number, episode_number),
     season_number |-> season_number, episode_number |-> episode_number,
     rating |-> rating, url |-> href]

parse_episode_from_h3(h3) ==
    IF ~h3.link.present THEN None
    ELSE IF extract_episode_id(h3.link.href) = None THEN None
    ELSE IF Trim(h3.link.text) = <<>> THEN None
    ELSE LET code == UnwrapOr(parse_episode_code(h3.tail), <<1, 1>>) IN
         Some(Episode(extract_episode_id(h3.link.href)[1], Trim(h3.link.text),
                      code[1], code[2], None, h3.link.href))

(* what the parser makes of each element a selector finds *)
EpisodesFromH3(els) == [i \in 1..Len(els) |-> parse_episode_from_h3(els[i])]

extract_season_header(row) ==
    IF row.header_cell THEN extract_season_number_from_text(ElementText(row))
    ELSE IF Contains(ElementText(row), <<"season">>)
    THEN extract_season_number_from_text(ElementText(row))
    ELSE None

(* the selectors .rating, .film-rating, td:last-child, .stars find the     *)
(* tail of the row; then the text of the whole row is tried                *)
extract_rating_from_row(row) ==
    IF row.tail # <<>> /\ parse_rating(row.tail) # None THEN parse_rating(row.tail)
    ELSE parse_rating(ElementText(row))

extract_rating_from_element(element) ==
    IF element.tail # <<>> /\ parse_rating(element.tail) # None
    THEN parse_rating(element.tail)
    ELSE parse_rating(ElementText(element))

(* a[href*='/film/'] finds the link of the row *)
FilmLink(el) == el.link.present /\ Contains(el.link.href, FilmMarker)

parse_episode_row(row, default_season) ==
    IF ~FilmLink(row) THEN None
    ELSE IF extract_csfd_id(row.link.href) = None THEN None
    ELSE IF Trim(row.link.text) = <<>> THEN None
    ELSE LET name == Trim(row.link.text)
             row_code == parse_episode_code(ElementText(row))
             name_code == parse_episode_code(name)
             code == IF row_code # None THEN row_code[1]
                     ELSE IF name_code # None THEN name_code[1]
                     ELSE <<default_season, 0>>
             episode_number ==
                 IF code[2] = 0
                 THEN UnwrapOr(extract_episode_number_from_name(name), 1)
                 ELSE code[2]
         IN Some(Episode(extract_csfd_id(row.link.href)[1], clean_episode_name(name),
                         code[1], episode_number, extract_rating_from_row(row),
                         row.link.href))

(* the href of the element itself or of the a[href*='/film/'] inside it *)
parse_episode_element(element, default_season) ==
    IF ~element.link.present THEN None
    ELSE IF extract_csfd_id(element.link.href) = None THEN None
    ELSE IF Trim(ElementText(element)) = <<>> THEN None
    ELSE LET name == Trim(ElementText(element))
             name_code == parse_episode_code(name)
             code == IF name_code # None
                     THEN name_code[1]
                     ELSE <<default_season,
                            UnwrapOr(extract_episode_number_from_name(name), 1)>>
         IN Some(Episode(extract_csfd_id(element.link.href)[1],
                         clean_episode_name(name), code[1], code[2],
                         extract_rating_from_element(element), element.link.href))

(* the rows of one container, with the season the rows before have set *)
RECURSIVE ScanRows(_, _)
ScanRows(rows, current_season) ==
    IF rows = <<>> THEN <<>>
    ELSE LET header == extract_season_header(Head(rows))
             episode == parse_episode_row(Head(rows), current_season)
         IN IF header # None THEN ScanRows(Tail(rows), header[1])
            ELSE IF episode # None
            THEN <<episode[1]>> \o ScanRows(Tail(rows), current_season)
            ELSE ScanRows(Tail(rows), current_season)

(* the containers in the order the selectors find them: the episodes of    *)
(* the first one that has any                                              *)
RECURSIVE ScanContainers(_)
ScanContainers(tables) ==
    IF tables = <<>> THEN <<>>
    ELSE LET episodes == ScanRows(Head(tables), 1) IN
         IF episodes # <<>> THEN episodes ELSE ScanContainers(Tail(tables))

(* every element takes the season the scan started with as its default *)
RECURSIVE ScanElementsNoCarry(_, _)
ScanElementsNoCarry(els, current_season) ==
    IF els = <<>> THEN <<>>
    ELSE LET episode == parse_episode_element(Head(els), current_season) IN
         IF episode # None
         THEN <<episode[1]>> \o ScanElementsNoCarry(Tail(els), current_season)
         ELSE ScanElementsNoCarry(Tail(els), current_season)

(* the elements of the last selector, each taking the season of the one    *)
(* parsed before it as its default                                         *)
RECURSIVE ScanElements(_, _)
ScanElements(els, current_season) ==
    IF els = <<>> THEN <<>>
    ELSE LET episode == parse_episode_element(Head(els), current_season) IN
         IF episode # None
         THEN <<episode[1]>> \o ScanElements(Tail(els), episode[1].season_number)
         ELSE ScanElements(Tail(els), current_season)

(* the three strategies run one after the other and their records merged *)
parse_episodes_merged(document) ==
    Ok(FilterMap(EpisodesFromH3(document.title_blocks))
       \o ScanContainers(document.tables) \o ScanElements(document.items, 1))

parse_episodes(document) ==
    LET from_h3 == FilterMap(EpisodesFromH3(document.title_blocks))
        from_rows == ScanContainers(document.tables)
    IN IF from_h3 # <<>> THEN Ok(from_h3)
       ELSE IF from_rows # <<>> THEN Ok(from_rows)
       ELSE Ok(ScanElements(document.items, 1))

(* -------------------------- parser/series.rs --------------------------- *)
(* \((\d{4})\) at place i: the digits *)
YearInParensAt(s, i) ==
    IF SymAt(s, i, {"("}) /\ DigitsAt(s, i + 1, 4) /\ SymAt(s, i + 5, {")"})
    THEN Some(SubSeq(s, i + 1, i + 4)) ELSE None

(* re.captures(text) of that pattern *)
YearInParensCaptures(text) ==
    FirstMatch([i \in 1..Len(text) |-> YearInParensAt(text, i)])

extract_year_from_season_name(name) ==
    IF YearInParensCaptures(name) # None
    THEN Some(YearInParensCaptures(name)[1])
    ELSE None

(* (\d+)\s*epizod at place i: the digits.  The search takes the longest    *)
(* run of digits that starts at i and gives digits back until the word     *)
(* follows, which it does only after the whole run.                        *)
EpisodeCountAt(s, i) ==
    IF DigitsAt(s, i, 1) /\ SymAt(s, SkipSpace(s, i + DigitRun(s, i)), {"epizod"})
    THEN Some(SubSeq(s, i, i + DigitRun(s, i) - 1)) ELSE None

(* re.captures(text) of that pattern *)
EpisodeCountCaptures(text) ==
    FirstMatch([i \in 1..Len(text) |-> EpisodeCountAt(text, i)])

extract_episode_count_from_info(text) ==
    IF EpisodeCountCaptures(text) # None
    THEN parse_u32(EpisodeCountCaptures(text)[1])
    ELSE None

(* \((\d+)(?:\s*epizod[ay]?)?\) at place i: the digits *)
CountInParensAt(s, i) ==
    IF /\ SymAt(s, i, {"("}) /\ DigitsAt(s, i + 1, 1)
       /\ \/ SymAt(s, i + 1 + DigitRun(s, i + 1), {")"})
          \/ /\ SymAt(s, SkipSpace(s, i + 1 + DigitRun(s, i + 1)), {"epizod"})
             /\ SymAt(s, SkipSpace(s, i + 1 + DigitRun(s, i + 1)) + 1, {")"})
    THEN Some(SubSeq(s, i + 1, i + DigitRun(s, i + 1))) ELSE None

(* re.captures(text) of that pattern *)
CountInParensCaptures(text) ==
    FirstMatch([i \in 1..Len(text) |-> CountInParensAt(text, i)])

extract_episode_count(name) ==
    IF CountInParensCaptures(name) # None
    THEN parse_u32(CountInParensCaptures(name)[1])
    ELSE None

(* the place of the ")" that closes the "(" at place i, 0 without one *)
ClosingParen(s, i) ==
    IF \E j \in (i + 1)..Len(s) : s[j] = ")"
    THEN SetMin({j \in (i + 1)..Len(s) : s[j] = ")"}) ELSE 0

(* the whitespace that ends just before place i reaches back to this place *)
SpaceStart(s, i) ==
    SetMin({j \in 1..i : \A k \in j..(i - 1) : IsWhitespace(s[k])})

(* replace_all of \s*\([^)]*\)\s* by one space *)
RECURSIVE ReplaceParens(_)
ReplaceParens(s) ==
    IF \E i \in 1..Len(s) : s[i] = "(" /\ ClosingParen(s, i) # 0
    THEN LET i == SetMin({j \in 1..Len(s) : s[j] = "(" /\ ClosingParen(s, j) # 0})
             close == ClosingParen(s, i)
         IN SubSeq(s, 1, SpaceStart(s, i) - 1) \o <<" ">>
            \o ReplaceParens(SubSeq(s, SkipSpace(s, close + 1), Len(s)))
    ELSE s

clean_season_name(name) == Trim(ReplaceParens(name))

Season(csfd_id, name, year, episode_count, href) ==
    [csfd_id |-> csfd_id, name |-> name, year |-> year,
     episode_count |-> episode_count, url |-> href]

parse_season_from_h3(h3) ==
    IF ~h3.link.present THEN None
    ELSE IF extract_season_id(h3.link.href) = None THEN None
    ELSE IF Trim(h3.link.text) = <<>> THEN None
    ELSE Some(Season(extract_season_id(h3.link.href)[1], Trim(h3.link.text),
                     extract_year_from_season_name(h3.tail),
                     UnwrapOr(extract_episode_count_from_info(h3.tail), 0),
                     h3.link.href))

(* what the parser makes of each element a selector finds *)
SeasonsFromH3(els) == [i \in 1..Len(els) |-> parse_season_from_h3(els[i])]

(* extract_season_id(&url).or_else(|| extract_csfd_id(&url)) *)
SeasonItemId(href) ==
    IF extract_season_id(href) # None THEN extract_season_id(href)
    ELSE extract_csfd_id(href)

(* the element is the link: its href and its text *)
parse_season_item(element) ==
    IF ~element.link.present THEN None
    ELSE IF SeasonItemId(element.link.href) = None THEN None
    ELSE IF Trim(ElementText(element)) = <<>> THEN None
    ELSE LET name == Trim(ElementText(element)) IN
         Some(Season(SeasonItemId(element.link.href)[1], clean_season_name(name),
                     extract_year_from_season_name(name),
                     UnwrapOr(extract_episode_count(name), 0), element.link.href))

(* what the parser makes of each element a selector finds *)
SeasonsFromItems(els) == [i \in 1..Len(els) |-> parse_season_item(els[i])]

(* every candidate is pushed, seen before or not *)
PushAlways(seasons, season) == Append(seasons, season)

(* if !seasons.iter().any(|s| s.csfd_id == season.csfd_id) { push } *)
PushUnlessSeen(seasons, season) ==
    IF \E i \in 1..Len(seasons) : seasons[i].csfd_id = season.csfd_id
    THEN seasons ELSE Append(seasons, season)

(* the seasons found in the elements, pushed onto seasons in turn;         *)
(* found[i] is what the parser of the strategy makes of element i          *)
CollectSeasons(seasons, found) ==
    LET out[i \in 0..Len(found)] ==
            IF i = 0 THEN seasons
            ELSE IF found[i] = None THEN out[i - 1]
            ELSE PushUnlessSeen(out[i - 1], found[i][1])
    IN  out[Len(found)]

(* the item selectors of one container in turn: the seasons of the first   *)
(* selector that gives any                                                 *)
RECURSIVE ScanItemSelectors(_)
ScanItemSelectors(by_selector) ==
    IF by_selector = <<>> THEN <<>>
    ELSE IF CollectSeasons(<<>>, SeasonsFromItems(Head(by_selector))) # <<>>
    THEN CollectSeasons(<<>>, SeasonsFromItems(Head(by_selector)))
    ELSE ScanItemSelectors(Tail(by_selector))

(* the containers in the order the selectors find them; each container is  *)
(* the elements each item selector finds in it                             *)
RECURSIVE ScanSeasonLists(_)
ScanSeasonLists(lists) ==
    IF lists = <<>> THEN <<>>
    ELSE IF ScanItemSelectors(Head(lists)) # <<>> THEN ScanItemSelectors(Head(lists))
    ELSE ScanSeasonLists(Tail(lists))

(* a[href*='/film/'][href*='serie'] finds these links *)
parse_seasons(document) ==
    IF CollectSeasons(<<>>, SeasonsFromH3(document.title_blocks)) # <<>>
    THEN CollectSeasons(<<>>, SeasonsFromH3(document.title_blocks))
    ELSE IF ScanSeasonLists(document.season_lists) # <<>>
    THEN ScanSeasonLists(document.season_lists)
    ELSE CollectSeasons(<<>>, SeasonsFromItems(document.season_links))

(* the first selector whose first element has text that is not blank;      *)
(* cascade[i] is None when selector i finds no element                     *)
RECURSIVE FirstText(_)
FirstText(cascade) ==
    IF cascade = <<>> THEN None
    ELSE IF Head(cascade) # None /\ Trim(Head(cascade)[1]) # <<>>
    THEN Some(Trim(Head(cascade)[1]))
    ELSE FirstText(Tail(cascade))

extract_series_name(document) == FirstText(document.names)

(* the cleaned first entry of ul.film-names, then the other selectors *)
extract_original_name(document) == FirstText(document.original_names)

(* the texts the selectors find, in the order they are tried; a text       *)
(* holds a year pattern or it does not                                     *)
extract_year_range(document) ==
    IF \E i \in 1..Len(document.years) : document.years[i] # None
    THEN document.years[SetMin({i \in 1..Len(document.years) :
                                   document.years[i] # None})]
    ELSE None

(* the texts of a list, blank ones and repeated ones left out *)
RECURSIVE Distinct(_, _)
Distinct(out, texts) ==
    IF texts = <<>> THEN out
    ELSE IF Trim(Head(texts)) # <<>>
            /\ ~\E i \in 1..Len(out) : out[i] = Trim(Head(texts))
    THEN Distinct(Append(out, Trim(Head(texts))), Tail(texts))
    ELSE Distinct(out, Tail(texts))

(* the texts of the first selector that gives any; by_selector[i] is what  *)
(* selector i finds                                                        *)
RECURSIVE FirstList(_)
FirstList(by_selector) ==
    IF by_selector = <<>> THEN <<>>
    ELSE IF Distinct(<<>>, Head(by_selector)) # <<>>
    THEN Distinct(<<>>, Head(by_selector))
    ELSE FirstList(Tail(by_selector))

extract_genres(document) == FirstList(document.genres)

(* the country links, or else what stands before the first comma of        *)
(* div.origin, unless it is blank or all digits                            *)
extract_countries(document) ==
    IF FirstList(document.countries) # <<>> THEN FirstList(document.countries)
    ELSE IF document.origin = None THEN <<>>
    ELSE IF Trim(Before(document.origin[1], ",")) # <<>>
            /\ ~AllDigits(Trim(Before(document.origin[1], ",")))
    THEN <<Trim(Before(document.origin[1], ","))>>
    ELSE <<>>

SeriesDetail(name, original_name, year_range, genres, countries, seasons) ==
    [name |-> name, original_name |-> original_name, year_range |-> year_range,
     genres |-> genres, countries |-> countries, seasons |-> seasons]

(* the name taken from wherever it can be had, "" when there is none *)
parse_series_detail_lenient(document, csfd_id) ==
    [Ok(SeriesDetail(UnwrapOr(extract_series_name(document), <<>>),
                     extract_original_name(document), extract_year_range(document),
                     extract_genres(document), extract_countries(document),
                     parse_seasons(document)))
     EXCEPT !.id = csfd_id]

parse_series_detail(document, csfd_id) ==
    IF extract_series_name(document) = None THEN ElementNotFound
    ELSE [Ok(SeriesDetail(extract_series_name(document)[1],
                          extract_original_name(document),
                          extract_year_range(document), extract_genres(document),
                          extract_countries(document), parse_seasons(document)))
          EXCEPT !.id = csfd_id]

(* -------------------------- parser/search.rs --------------------------- *)
SearchResult(name, href, csfd_id) ==
    [name |-> name, url |-> href, csfd_id |-> csfd_id]

parse_search_item(element) ==
    IF ~element.link.present THEN None
    ELSE IF extract_csfd_id(element.link.href) = None THEN None
    ELSE IF Trim(element.link.text) = <<>> THEN None
    ELSE Some(SearchResult(Trim(element.link.text), element.link.href,
                           extract_csfd_id(element.link.href)[1]))

(* what the parser makes of each element a selector finds *)
SearchItems(els) == [i \in 1..Len(els) |-> parse_search_item(els[i])]

(* An element of the pagination markup: whether it is an a element, has    *)
(* the classes next, pagination-next and disabled, has rel='next', and     *)
(* stands inside an element of the class pagination or paging.             *)
NextLink(anchor, next, page_next, rel_next, disabled, in_pagination, in_paging) ==
    [anchor |-> anchor, class_next |-> next, class_pagination_next |-> page_next,
     rel_next |-> rel_next, disabled |-> disabled,
     in_pagination |-> in_pagination, in_paging |-> in_paging]

(* the selectors .pagination .next:not(.disabled), .paging a.next,         *)
(* a[rel='next'] and .pagination-next:not(.disabled), in this order        *)
NUM_NEXT_SELECTORS == 4
NextSelectorMatches(k, el) ==
    IF k = 1 THEN el.in_pagination /\ el.class_next /\ ~el.disabled
    ELSE IF k = 2 THEN el.in_paging /\ el.anchor /\ el.class_next
    ELSE IF k = 3 THEN el.anchor /\ el.rel_next
    ELSE el.class_pagination_next /\ ~el.disabled

(* document.select(&selector).next().is_some() for one of the selectors *)
detect_pagination(document) ==
    \E k \in 1..NUM_NEXT_SELECTORS :
        \E i \in 1..Len(document.next_links) :
            NextSelectorMatches(k, document.next_links[i])

(* PaginatedResult::new(items, current_page, has_next_page) *)
parse_search_results(body) ==
    [Ok(FilterMap(SearchItems(body.articles)))
     EXCEPT !.current_page = UnwrapOr(extract_current_page(body), 1),
            !.has_next_page = detect_pagination(body)]

(* ------------------------- documents fetched --------------------------- *)
(* /film/{series}-a/{nested}-b/ and /film/{series}-a/ *)
NestedHref(series, nested) ==
    FilmMarker \o ToDigits(series) \o <<"-", "a", "/">>
               \o ToDigits(nested) \o <<"-", "b", "/">>
SeriesHref(series) == FilmMarker \o ToDigits(series) \o <<"-", "a", "/">>

(* an element that is a link with a text and nothing else *)
LinkOnly(href, text) == Block(<<>>, Link(href, text), <<>>, FALSE)

(* a page that has a name, and candidates with and without a valid id *)
SamplePage ==
    [EmptyDocument EXCEPT
        !.names = <<None, Some(<<" ">>), Some(<<"a">>), None, None>>,
        !.articles = <<LinkOnly(SeriesHref(0), <<"a">>), LinkOnly(SeriesHref(1), <<"a">>)>>,
        !.title_blocks = <<LinkOnly(NestedHref(0, 0), <<"a">>),
                           LinkOnly(NestedHref(1, 0), <<"a">>),
                           LinkOnly(NestedHref(1, 2), <<"a">>)>>]

(* the documents a fetch returns: listing pages with every pagination      *)
(* markup, and the sample page                                             *)
Bodies ==
    {[EmptyDocument EXCEPT !.pagination_active = a, !.paging_current = b,
                           !.pagination_current = c] : a, b, c \in PageTexts}
    \cup {SamplePage}

(* --------------------------- retry policy ----------------------------- *)
(* a delay that grows by the base instead of doubling *)
calculate_backoff_delay_linear(k) == BASE_RETRY_DELAY_MS * (k + 1)

(* 2u64.pow(attempt): attempt never exceeds MAX_RETRIES, far below the     *)
(* 64 doublings that would overflow a u64                                  *)
calculate_backoff_delay(k) == BASE_RETRY_DELAY_MS * (2 ^ k)

is_success(s) == 200 <= s /\ s <= 299
is_client_error(s) == 400 <= s /\ s <= 499
is_server_error(s) == 500 <= s /\ s <= 599

(* reqwest's Response::error_for_status is Err only for 4xx and 5xx, so    *)
(* unwrap_err() on it panics for every other status                        *)
ErrorForStatus(s) ==
    IF is_client_error(s) \/ is_server_error(s) THEN HttpError ELSE Panicked

(* ------------------------------- paths -------------------------------- *)
(* the page parameter is added for page 1 as well *)
SearchPathFromPageOne(trimmed, page) ==
    IF page >= 1
    THEN <<"/hledat/?q=">> \o UrlEncode(trimmed) \o <<"&page=", page>>
    ELSE <<"/hledat/?q=">> \o UrlEncode(trimmed)

SearchPath(trimmed, page) ==
    IF page > 1
    THEN <<"/hledat/?q=">> \o UrlEncode(trimmed) \o <<"&page=", page>>
    ELSE <<"/hledat/?q=">> \o UrlEncode(trimmed)

SeriesPath(csfd_id) == <<"/film/", csfd_id, "/prehled/">>
EpisodesPath(csfd_id) == <<"/film/", csfd_id, "/epizody/">>
SeasonEpisodesPath(series_id, season_id) ==
    <<"/film/", series_id, "/", season_id, "/epizody/">>

(* ----------------------------- GUI bridge ----------------------------- *)
(* the commands the frontend has invoked or may invoke, each run as a task *)
Commands == 1..NumCommands

(* arguments of a command: a blank query and a query, no id and an id *)
CommandQueries == {<<" ">>, <<"a">>}
CommandPages == {1, 2}
CommandIds == {0, 1}

NoCommand == [call |-> NoCall, pc |-> "idle", attempt |-> 0, returned |-> "none"]

(* ------------------------------- Init --------------------------------- *)
Init ==
    /\ \E r \in Rates :
          /\ min_interval = RateLimiterNew(r).min_interval
          /\ elapsed = RateLimiterNew(r).elapsed
    /\ holder = <<>>
    /\ waiters = <<>>
    /\ pc = [p \in Procs |-> "idle"]
    /\ sleep_left = [p \in Procs |-> 0]
    /\ acquires = [t \in Callers |-> 0]
    /\ call = [t \in Callers |-> NoCall]
    /\ url = [t \in Callers |-> <<>>]
    /\ attempt = [t \in Callers |-> 0]
    /\ outcome = [t \in Callers |-> NoOutcome]
    /\ seen = [t \in Callers |-> {}]
    /\ result = [t \in Callers |-> NoResult]
    /\ gets = [t \in Callers |-> 0]
    /\ backoffs = [t \in Callers |-> <<>>]
    /\ extracted = [t \in Callers |-> 0]
    /\ returns = 0
    /\ since_return = 0
    /\ gap = 0
    /\ fetches = [t \in Callers |-> 0]
    /\ fetched = [t \in Callers |-> NoResult]
    /\ parsed = [t \in Callers |-> NoResult]
    /\ dropped_at = [t \in Callers |-> "none"]
    /\ parse_fn = "none"
    /\ parse_in = <<>>
    /\ parse_out = <<>>
    /\ scraper_guard = <<>>
    /\ scraper_queue = <<>>
    /\ command = [c \in Commands |-> NoCommand]

(* TickMs pass: every age grows, every sleep gets shorter *)
Tick ==
    /\ elapsed' = Min(elapsed + TickMs, min_interval)
    /\ since_return' = Min(since_return + TickMs, min_interval)
    /\ sleep_left' = [p \in Procs |-> Max(sleep_left[p] - TickMs, 0)]
    /\ UNCHANGED <<min_interval, holder, waiters, pc, fetch_vars, returns, gap,
                   parser_vars, bridge_vars>>

(* ---------------------- RateLimiter::acquire -------------------------- *)
(* a lock whose waiting task is not queued, so that no release wakes it *)
LockLostWakeup(p) ==
    IF holder = <<>>
    THEN /\ holder' = <<p>>
         /\ waiters' = waiters
         /\ pc' = [pc EXCEPT ![p] = "locked"]
    ELSE /\ holder' = holder
         /\ waiters' = waiters
         /\ pc' = [pc EXCEPT ![p] = "lock_wait"]

(* self.last_request.lock().await: the lock is taken, or the task queues *)
Lock(p) ==
    IF holder = <<>>
    THEN /\ holder' = <<p>>
         /\ waiters' = waiters
         /\ pc' = [pc EXCEPT ![p] = "locked"]
    ELSE /\ holder' = holder
         /\ waiters' = Append(waiters, p)
         /\ pc' = [pc EXCEPT ![p] = "lock_wait"]

(* where a task goes on when acquire() returns *)
AfterAcquire(p) == IF p \in Callers THEN "send" ELSE "idle"

(* acquire returns the guard to its caller, who keeps the lock *)
AcquireReturnKeepsLock(p) ==
    /\ elapsed' = 0
    /\ holder' = holder
    /\ waiters' = waiters
    /\ pc' = [pc EXCEPT ![p] = AfterAcquire(p)]
    /\ acquires' = [t \in Callers |-> IF t = p THEN acquires[t] + 1 ELSE acquires[t]]
    /\ returns' = Min(returns + 1, MaxReturns)
    /\ gap' = since_return
    /\ since_return' = 0
    /\ UNCHANGED <<min_interval, sleep_left, call, url, attempt, outcome, seen,
                   result, gets, backoffs, extracted, op_vars, parser_vars, bridge_vars>>

(* *last = Instant::now(); the guard is dropped, which hands the lock to   *)
(* the longest-waiting task, and acquire returns                           *)
AcquireReturn(p) ==
    /\ elapsed' = 0
    /\ IF waiters = <<>>
       THEN /\ holder' = <<>>
            /\ waiters' = waiters
            /\ pc' = [pc EXCEPT ![p] = AfterAcquire(p)]
       ELSE /\ holder' = <<Head(waiters)>>
            /\ waiters' = Tail(waiters)
            /\ pc' = [pc EXCEPT ![p] = AfterAcquire(p), ![Head(waiters)] = "locked"]
    /\ acquires' = [t \in Callers |-> IF t = p THEN acquires[t] + 1 ELSE acquires[t]]
    /\ returns' = Min(returns + 1, MaxReturns)
    /\ gap' = since_return
    /\ since_return' = 0
    /\ UNCHANGED <<min_interval, sleep_left, call, url, attempt, outcome, seen,
                   result, gets, backoffs, extracted, op_vars, parser_vars, bridge_vars>>

(* elapsed >= min_interval: no wait *)
AcquireNoWait(p) ==
    /\ pc[p] = "locked"
    /\ holder = <<p>>
    /\ ~MustWait(elapsed, min_interval)
    /\ AcquireReturn(p)

(* elapsed < min_interval: sleep(wait_time) *)
AcquireSleep(p) ==
    /\ pc[p] = "locked"
    /\ holder = <<p>>
    /\ MustWait(elapsed, min_interval)
    /\ sleep_left' = [sleep_left EXCEPT ![p] = WaitTime(elapsed, min_interval)]
    /\ pc' = [pc EXCEPT ![p] = "acquire_sleep"]
    /\ UNCHANGED <<min_interval, elapsed, holder, waiters, fetch_vars, returns,
                   since_return, gap, parser_vars, bridge_vars>>

AcquireWake(p) ==
    /\ pc[p] = "acquire_sleep"
    /\ sleep_left[p] <= 0
    /\ AcquireReturn(p)

(* a task calls limiter.acquire() *)
Acquire(a) ==
    /\ a \in Acquirers
    /\ pc[a] = "idle"
    /\ Lock(a)
    /\ UNCHANGED <<min_interval, elapsed, sleep_left, fetch_vars, returns,
                   since_return, gap, parser_vars, bridge_vars>>

(* --------------------------- scraper API ------------------------------ *)
(* an operation returns to its caller *)
Return(t, r) ==
    /\ pc' = [pc EXCEPT ![t] = "done"]
    /\ result' = [result EXCEPT ![t] = r]

(* an operation fails its validation *)
Reject(t, r) ==
    /\ Return(t, r)
    /\ UNCHANGED <<holder, waiters, url, attempt, fetches>>

(* CsfdClient::fetch: fetch_with_retry(url, 0), up to the lock of acquire *)
Fetch(t, path) ==
    /\ fetches' = [fetches EXCEPT ![t] = @ + 1]
    /\ url' = [url EXCEPT ![t] = <<CSFD_BASE_URL>> \o path]
    /\ attempt' = [attempt EXCEPT ![t] = 0]
    /\ Lock(t)
    /\ UNCHANGED result

SearchPageBody(t, query, page) ==
    IF Trim(query) = <<>>
    THEN Reject(t, InvalidUrl)
    ELSE Fetch(t, SearchPath(Trim(query), page))

api_unchanged == <<min_interval, elapsed, sleep_left, acquires, outcome, seen,
                   gets, backoffs, extracted, returns, since_return, gap,
                   fetched, parsed, dropped_at, parser_vars, bridge_vars>>

SearchPage(t) ==
    /\ pc[t] = "idle"
    /\ \E query \in Queries, page \in Pages :
          /\ call' = [call EXCEPT ![t] =
                [NoCall EXCEPT !.op = "search_page", !.query = query, !.page = page]]
          /\ SearchPageBody(t, query, page)
    /\ UNCHANGED api_unchanged

Search(t) ==
    /\ pc[t] = "idle"
    /\ \E query \in Queries :
          /\ call' = [call EXCEPT ![t] =
                [NoCall EXCEPT !.op = "search", !.query = query, !.page = 1]]
          /\ SearchPageBody(t, query, 1)
    /\ UNCHANGED api_unchanged

(* a check no u32 fails *)
IdValidAlways(csfd_id) == csfd_id >= 0

IdValid(csfd_id) == csfd_id # 0

GetSeries(t) ==
    /\ pc[t] = "idle"
    /\ \E csfd_id \in Ids :
          /\ call' = [call EXCEPT ![t] =
                [NoCall EXCEPT !.op = "get_series", !.id = csfd_id]]
          /\ IF ~IdValid(csfd_id)
             THEN Reject(t, InvalidId(csfd_id))
             ELSE Fetch(t, SeriesPath(csfd_id))
    /\ UNCHANGED api_unchanged

GetEpisodes(t) ==
    /\ pc[t] = "idle"
    /\ \E csfd_id \in Ids :
          /\ call' = [call EXCEPT ![t] =
                [NoCall EXCEPT !.op = "get_episodes", !.id = csfd_id]]
          /\ IF ~IdValid(csfd_id)
             THEN Reject(t, InvalidId(csfd_id))
             ELSE Fetch(t, EpisodesPath(csfd_id))
    /\ UNCHANGED api_unchanged

GetSeasonEpisodes(t) ==
    /\ pc[t] = "idle"
    /\ \E series_id \in Ids, season_id \in Ids :
          /\ call' = [call EXCEPT ![t] =
                [NoCall EXCEPT !.op = "get_season_episodes",
                               !.id = series_id, !.season = season_id]]
          /\ IF ~IdValid(series_id)
             THEN Reject(t, InvalidId(series_id))
             ELSE IF ~IdValid(season_id)
             THEN Reject(t, InvalidId(season_id))
             ELSE Fetch(t, SeasonEpisodesPath(series_id, season_id))
    /\ UNCHANGED api_unchanged

(* the parsed page left in place *)
KeepCurrentPage(r, page) == r

(* result.current_page = page *)
SetCurrentPage(r, page) == [r EXCEPT !.current_page = page]

(* every error turned into a ParseError on its way up *)
PropagateAsParseError(e) == Err("ParseError")

(* the ? operator on a Result<_, CsfdError> in a function returning        *)
(* Result<_, CsfdError>: the error is returned as it is                    *)
Propagate(e) == e

(* the extractor an operation runs on the text fetch returned *)
Extract(c, body) ==
    IF c.op \in {"search", "search_page"} THEN parse_search_results(body)
    ELSE IF c.op = "get_series" THEN parse_series_detail(body, c.id)
    ELSE parse_episodes(body)

(* what the operation does with what its extractor returned *)
Finish(c, r) ==
    IF c.op \in {"search", "search_page"}
    THEN IF r.tag = "Ok" THEN SetCurrentPage(r, c.page) ELSE Propagate(r)
    ELSE r

(* ------------------- CsfdClient::fetch_with_retry --------------------- *)
limiter_vars == <<min_interval, elapsed, holder, waiters, sleep_left, acquires,
                  returns, since_return, gap>>

(* what no step of a fetch touches *)
fetch_outside == <<fetches, dropped_at, parser_vars, bridge_vars>>

(* fetch returns Err(e), and the ? of the operation returns from it *)
FetchErr(t, e) ==
    /\ fetched' = [fetched EXCEPT ![t] = e]
    /\ Return(t, Propagate(e))
    /\ UNCHANGED parsed

(* self.client.get(url).send() *)
Send(t) ==
    /\ pc[t] = "send"
    /\ gets' = [gets EXCEPT ![t] = @ + 1]
    /\ pc' = [pc EXCEPT ![t] = "await"]
    /\ UNCHANGED <<limiter_vars, call, url, attempt, outcome, seen, result,
                   backoffs, extracted, fetched, parsed, fetch_outside>>

(* send().await? fails: a timeout, a connection error *)
SendError(t) ==
    /\ pc[t] = "await"
    /\ outcome' = [outcome EXCEPT ![t] = [kind |-> "error", code |-> 0]]
    /\ FetchErr(t, HttpError)
    /\ UNCHANGED <<limiter_vars, call, url, attempt, seen, gets, backoffs, extracted,
                   fetch_outside>>

Status(t, s) == outcome' = [outcome EXCEPT ![t] = [kind |-> "status", code |-> s]]

(* status.is_success(): go on to response.text() *)
RespSuccess(t) ==
    /\ pc[t] = "await"
    /\ \E s \in StatusCodes :
          /\ is_success(s)
          /\ Status(t, s)
    /\ pc' = [pc EXCEPT ![t] = "text"]
    /\ UNCHANGED <<limiter_vars, call, url, attempt, seen, result, gets,
                   backoffs, extracted, fetched, parsed, fetch_outside>>

(* response.text().await? fails *)
TextError(t) ==
    /\ pc[t] = "text"
    /\ outcome' = [outcome EXCEPT ![t] = [kind |-> "error", code |-> @.code]]
    /\ FetchErr(t, HttpError)
    /\ UNCHANGED <<limiter_vars, call, url, attempt, seen, gets, backoffs, extracted,
                   fetch_outside>>

(* the text arrives; fetch returns it and the operation runs its extractor *)
TextOk(t) ==
    /\ pc[t] = "text"
    /\ \E body \in Bodies :
          /\ fetched' = [fetched EXCEPT ![t] = [NoResult EXCEPT !.tag = "Ok"]]
          /\ parsed' = [parsed EXCEPT ![t] = Extract(call[t], body)]
          /\ Return(t, Finish(call[t], parsed'[t]))
          /\ extracted' = [extracted EXCEPT ![t] =
                               parse_search_results(body).current_page]
    /\ UNCHANGED <<limiter_vars, call, url, attempt, outcome, seen, gets, backoffs,
                   fetch_outside>>

RespNotFound(t) ==
    /\ pc[t] = "await"
    /\ Status(t, 404)
    /\ FetchErr(t, NotFound(url[t]))
    /\ UNCHANGED <<limiter_vars, call, url, attempt, seen, gets, backoffs, extracted,
                   fetch_outside>>

(* attempt <= MAX_RETRIES *)
MayRetryOnceMore(k) == k <= MAX_RETRIES

(* attempt < MAX_RETRIES *)
MayRetry(k) == k < MAX_RETRIES

(* sleep(delay) before the recursive call *)
Backoff(t, s) ==
    /\ sleep_left' = [sleep_left EXCEPT ![t] = calculate_backoff_delay(attempt[t])]
    /\ backoffs' = [backoffs EXCEPT ![t] = Append(@, calculate_backoff_delay(attempt[t]))]
    /\ seen' = [seen EXCEPT ![t] = @ \cup {s}]
    /\ pc' = [pc EXCEPT ![t] = "backoff"]
    /\ UNCHANGED <<result, fetched, parsed>>

(* the error chosen by what the fetch has seen before: RateLimited once    *)
(* any response was a 429                                                 *)
GiveUpByHistory(t, r) ==
    /\ FetchErr(t, IF 429 \in seen[t] THEN RateLimited ELSE r)
    /\ UNCHANGED <<sleep_left, backoffs, seen>>

(* the retry budget is spent *)
GiveUp(t, r) ==
    /\ FetchErr(t, r)
    /\ UNCHANGED <<sleep_left, backoffs, seen>>

resp_unchanged == <<min_interval, elapsed, holder, waiters, acquires, returns,
                    since_return, gap, call, url, attempt, gets, extracted,
                    fetch_outside>>

RespTooManyRequests(t) ==
    /\ pc[t] = "await"
    /\ Status(t, 429)
    /\ IF MayRetry(attempt[t]) THEN Backoff(t, 429) ELSE GiveUp(t, RateLimited)
    /\ UNCHANGED resp_unchanged

RespServerError(t) ==
    /\ pc[t] = "await"
    /\ \E s \in StatusCodes :
          /\ is_server_error(s)
          /\ Status(t, s)
          /\ IF MayRetry(attempt[t]) THEN Backoff(t, s) ELSE GiveUp(t, ErrorForStatus(s))
    /\ UNCHANGED resp_unchanged

RespOther(t) ==
    /\ pc[t] = "await"
    /\ \E s \in StatusCodes :
          /\ ~is_success(s) /\ s # 404 /\ s # 429 /\ ~is_server_error(s)
          /\ Status(t, s)
          /\ FetchErr(t, ErrorForStatus(s))
    /\ UNCHANGED <<limiter_vars, call, url, attempt, seen, gets, backoffs, extracted,
                   fetch_outside>>

(* the retry made with the attempt number it had *)
RetrySameAttempt(t) ==
    /\ pc[t] = "backoff"
    /\ sleep_left[t] <= 0
    /\ Lock(t)
    /\ UNCHANGED <<min_interval, elapsed, sleep_left, acquires, returns,
                   since_return, gap, call, url, attempt, outcome, seen, result,
                   gets, backoffs, extracted, op_vars, parser_vars, bridge_vars>>

(* the retry goes straight to the request *)
RetryWithoutAcquire(t) ==
    /\ pc[t] = "backoff"
    /\ sleep_left[t] <= 0
    /\ attempt' = [attempt EXCEPT ![t] = @ + 1]
    /\ pc' = [pc EXCEPT ![t] = "send"]
    /\ UNCHANGED <<min_interval, elapsed, holder, waiters, sleep_left, acquires,
                   returns, since_return, gap, call, url, outcome, seen, result,
                   gets, backoffs, extracted, op_vars, parser_vars, bridge_vars>>

(* the backoff sleep is over: self.fetch_with_retry(url, attempt + 1),     *)
(* up to the lock of acquire                                               *)
Retry(t) ==
    /\ pc[t] = "backoff"
    /\ sleep_left[t] <= 0
    /\ attempt' = [attempt EXCEPT ![t] = @ + 1]
    /\ Lock(t)
    /\ UNCHANGED <<min_interval, elapsed, sleep_left, acquires, returns,
                   since_return, gap, call, url, outcome, seen, result, gets,
                   backoffs, extracted, op_vars, parser_vars, bridge_vars>>

(* --------------------------- cancellation ----------------------------- *)
(* the queue of the lock without the task whose lock() future is dropped *)
Without(q, p) == SelectSeq(q, LAMBDA x : x # p)

(* a dropped caller is gone; a dropped acquire() leaves its task free to   *)
(* call acquire() again                                                    *)
AfterDrop(p) == IF p \in Callers THEN "cancelled" ELSE "idle"

(* the guard stays where it is, and with it the lock *)
DropGuardLeaked(p) ==
    /\ holder' = holder
    /\ waiters' = waiters
    /\ pc' = [pc EXCEPT ![p] = AfterDrop(p)]

(* the MutexGuard held across the sleep of acquire() is dropped with the   *)
(* future: the lock goes to the longest-waiting task, last_request is not  *)
(* written                                                                 *)
DropGuard(p) ==
    IF waiters = <<>>
    THEN /\ holder' = <<>>
         /\ waiters' = waiters
         /\ pc' = [pc EXCEPT ![p] = AfterDrop(p)]
    ELSE /\ holder' = <<Head(waiters)>>
         /\ waiters' = Tail(waiters)
         /\ pc' = [pc EXCEPT ![p] = AfterDrop(p), ![Head(waiters)] = "locked"]

(* the future of a task is dropped at one of its await points: lock(),     *)
(* the sleep of acquire(), send(), text() and the backoff sleep            *)
Cancel(p) ==
    /\ pc[p] \in {"lock_wait", "locked", "acquire_sleep", "await", "text", "backoff"}
    /\ IF pc[p] = "lock_wait"
       THEN /\ holder' = holder
            /\ waiters' = Without(waiters, p)
            /\ pc' = [pc EXCEPT ![p] = AfterDrop(p)]
       ELSE IF holder = <<p>>
       THEN DropGuard(p)
       ELSE /\ holder' = holder
            /\ waiters' = waiters
            /\ pc' = [pc EXCEPT ![p] = AfterDrop(p)]
    /\ sleep_left' = [sleep_left EXCEPT ![p] = 0]
    /\ dropped_at' = [t \in Callers |-> IF t = p THEN pc[p] ELSE dropped_at[t]]
    /\ UNCHANGED <<min_interval, elapsed, acquires, returns, since_return, gap,
                   call, url, attempt, outcome, seen, result, gets, backoffs,
                   extracted, fetches, fetched, parsed, parser_vars, bridge_vars>>

Next ==
    \/ Tick
    \/ \E p \in Procs :
          \/ Acquire(p) \/ AcquireNoWait(p) \/ AcquireSleep(p) \/ AcquireWake(p)
          \/ Cancel(p)
    \/ \E t \in Callers :
          \/ Search(t) \/ SearchPage(t) \/ GetSeries(t) \/ GetEpisodes(t)
          \/ GetSeasonEpisodes(t)
          \/ Send(t) \/ SendError(t) \/ RespSuccess(t) \/ TextError(t) \/ TextOk(t)
          \/ RespNotFound(t) \/ RespTooManyRequests(t) \/ RespServerError(t)
          \/ RespOther(t) \/ Retry(t)

Spec == Init /\ [][Next]_vars

(* ----------------------- the extractors alone -------------------------- *)
(* sequences over S of length n at most *)
SeqUpTo(S, n) == UNION {[1..k -> S] : k \in 0..n}

(* sequences over S of one element at most *)
Short(S) == {<<>>} \cup {<<x>> : x \in S}

(* urls: what stands before the component, the component, what follows *)
UrlStarts ==
    {s \o t : s \in {<<>>, <<"a">>},
              t \in {<<>>, FilmMarker, <<"film", "/">>, <<"/", "film">>}}
UrlSegments == SeqUpTo({"-", "+", "0", "1", "a"}, MaxSegmentLen)
UrlEnds == {<<>>, <<"/">>, <<"/", "2", "-", "b", "/">>, <<"/", "film", "/", "2", "-", "b">>}
Urls == {s \o seg \o e : s \in UrlStarts, seg \in UrlSegments, e \in UrlEnds}

RatingTexts == SeqUpTo({"0", "1", "5", ".", "%", " "}, MaxRatingLen)

(* rows of an episode table: a header cell or none, a season word with a   *)
(* number, with a number no u8 holds, or without one, a link or none       *)
SeasonLeads ==
    {<<>>, <<"season">>}
    \cup {<<"season", " ">> \o ToDigits(n) : n \in {100, 300}}
Rows ==
    {Block(lead, link, <<>>, header_cell) :
        lead \in SeasonLeads, link \in {NoLink, Link(NestedHref(1, 2), <<"a">>)},
        header_cell \in BOOLEAN}
TableDocuments ==
    {[EmptyDocument EXCEPT !.tables = <<rows>>] : rows \in SeqUpTo(Rows, MaxRows)}

(* one element, of every make, where one strategy looks for it *)
ElementLinks ==
    {NoLink}
    \cup {Link(href, text) :
            href \in {NestedHref(1, 2), NestedHref(0, 0), SeriesHref(1), NestedHref(1, 0)},
            text \in {<<>>, <<"a">>, <<"3", ".", " ", "a">>,
                      <<"S", "0", "4", "E", "0", "0", " ", "-", " ", "a">>}}
ElementTails ==
    {<<>>, <<"(", "S", "0", "2", "E", "0", "3", ")">>, <<"2", "x", "1", "5">>,
     <<"8", "5", "%">>, <<"1", "5", "0", "%">>}
Elements ==
    {Block(lead, link, tail, header_cell) :
        lead \in {<<>>, <<"season", " ", "2">>}, link \in ElementLinks,
        tail \in ElementTails, header_cell \in BOOLEAN}
SingleDocuments ==
    {[EmptyDocument EXCEPT !.title_blocks = <<el>>] : el \in Elements}
    \cup {[EmptyDocument EXCEPT !.tables = <<<<el>>>>] : el \in Elements}
    \cup {[EmptyDocument EXCEPT !.items = <<el>>] : el \in Elements}

(* documents with something for every strategy, or nothing *)
Candidates ==
    {Block(<<>>, NoLink, <<>>, FALSE), LinkOnly(NestedHref(1, 2), <<"a">>),
     LinkOnly(NestedHref(1, 3), <<"b">>)}
CascadeDocuments ==
    {[EmptyDocument EXCEPT !.title_blocks = blocks, !.tables = tables, !.items = items] :
        blocks \in Short(Candidates),
        tables \in Short(Short(Candidates))
                   \cup {<<s, t>> : s, t \in Short(Candidates)},
        items \in Short(Candidates)}

(* episode links found directly: no link, a link without an episode code,  *)
(* one after a season word, one with the code S04E05, one with 2x15; up to *)
(* three of them in a document                                             *)
ItemCandidates ==
    {Block(<<>>, NoLink, <<>>, FALSE),
     LinkOnly(NestedHref(1, 2), <<"a">>),
     Block(<<"season", " ", "2">>, Link(NestedHref(1, 2), <<"a">>), <<>>, FALSE),
     LinkOnly(NestedHref(1, 3), <<"S", "0", "4", "E", "0", "5">>),
     LinkOnly(NestedHref(1, 3), <<"2", "x", "1", "5">>)}
ItemDocuments ==
    {[EmptyDocument EXCEPT !.items = els] :
        els \in {<<>>} \cup {<<a>> : a \in ItemCandidates}
                \cup {<<a, b>> : a, b \in ItemCandidates}
                \cup {<<a, b, c>> : a, b, c \in ItemCandidates}}

EpisodeDocuments ==
    TableDocuments \cup SingleDocuments \cup CascadeDocuments \cup ItemDocuments

(* season candidates: two with the same id and different names, one with   *)
(* another id, one with no valid id, one that is no link                   *)
SeasonCandidates ==
    {Block(<<>>, NoLink, <<>>, FALSE), LinkOnly(NestedHref(1, 2), <<"a">>),
     LinkOnly(NestedHref(1, 2), <<"b">>), LinkOnly(NestedHref(1, 3), <<"a">>),
     LinkOnly(NestedHref(0, 0), <<"a">>)}
SeasonBlockDocuments ==
    {[EmptyDocument EXCEPT !.title_blocks = blocks] :
        blocks \in SeqUpTo(SeasonCandidates, MaxSeasonBlocks)}
SeasonLinkDocuments ==
    {[EmptyDocument EXCEPT !.season_links = links] :
        links \in SeqUpTo(SeasonCandidates, MaxSeasonBlocks)}
SeasonCascadeDocuments ==
    {[EmptyDocument EXCEPT !.title_blocks = blocks, !.season_lists = lists,
                           !.season_links = links] :
        blocks \in Short(Candidates),
        lists \in Short({<<a, b, c>> : a, b, c \in Short(Candidates)}),
        links \in Short(Candidates)}
SeasonDocuments ==
    SeasonBlockDocuments \cup SeasonLinkDocuments \cup SeasonCascadeDocuments

(* what one selector of a text cascade finds: no element, an element with  *)
(* blank text, an element with text                                        *)
SelectorTexts == {None, Some(<<" ">>), Some(<<"a">>)}
NUM_NAME_SELECTORS == 5
SeriesDocuments ==
    {[EmptyDocument EXCEPT
         !.names = names, !.original_names = <<None, original, None, None>>,
         !.years = years, !.genres = genres, !.countries = origin[1],
         !.origin = origin[2], !.title_blocks = blocks] :
        names \in [1..NUM_NAME_SELECTORS -> SelectorTexts],
        original \in {None, Some(<<"b">>)},
        years \in {<<>>, <<None, Some(<<"2", "0", "0", "7">>)>>},
        genres \in {<<>>, <<<<>>, <<<<"a">>, <<"b">>, <<"a">>>>>>},
        origin \in {<<<<>>, None>>, <<<<<<<<"a">>>>>>, None>>,
                    <<<<>>, Some(<<"a", ",", "b">>)>>},
        blocks \in {<<>>, <<LinkOnly(NestedHref(1, 2), <<"a">>),
                             LinkOnly(NestedHref(1, 2), <<"b">>)>>}}

(* listing pages: one element of the pagination markup of every make, or   *)
(* two of a few makes, and a result or none                                *)
NextLinks ==
    {NextLink(a, b, c, d, e, f, g) : a, b, c, d, e, f, g \in BOOLEAN}
NextLinkPairs ==
    {<<a, b>> : a, b \in {NextLink(TRUE, TRUE, FALSE, FALSE, e, f, FALSE) :
                              e, f \in BOOLEAN}}
SearchDocuments ==
    {[EmptyDocument EXCEPT !.next_links = links, !.articles = articles] :
        links \in Short(NextLinks) \cup NextLinkPairs,
        articles \in {<<>>, <<LinkOnly(SeriesHref(1), <<"a">>)>>}}

scraper_vars == <<min_interval, elapsed, holder, waiters, pc, sleep_left, acquires,
                  call, url, attempt, outcome, seen, result, gets, backoffs,
                  extracted, returns, since_return, gap, op_vars>>

(* no operation of the scraper runs: an extractor is applied on its own *)
ParserInit == Init /\ min_interval = MinInterval(1)

Apply(fn, input, output) ==
    /\ parse_fn' = fn
    /\ parse_in' = input
    /\ parse_out' = output
    /\ UNCHANGED <<scraper_vars, bridge_vars>>

ExtractCsfdId ==
    /\ parse_fn = "none"
    /\ \E href \in Urls : Apply("extract_csfd_id", href, extract_csfd_id(href))

ParseRating ==
    /\ parse_fn = "none"
    /\ \E text \in RatingTexts : Apply("parse_rating", text, parse_rating(text))

ParseEpisodes ==
    /\ parse_fn = "none"
    /\ \E document \in EpisodeDocuments :
          Apply("parse_episodes", document, parse_episodes(document))

ParseSeasons ==
    /\ parse_fn = "none"
    /\ \E document \in SeasonDocuments :
          Apply("parse_seasons", document, parse_seasons(document))

ParseSeriesDetail ==
    /\ parse_fn = "none"
    /\ \E document \in SeriesDocuments, csfd_id \in {MaxId} :
          Apply("parse_series_detail", [document |-> document, csfd_id |-> csfd_id],
                parse_series_detail(document, csfd_id))

ParseSearchResults ==
    /\ parse_fn = "none"
    /\ \E document \in SearchDocuments :
          Apply("parse_search_results", document, parse_search_results(document))

ParserNext ==
    \/ ExtractCsfdId \/ ParseRating \/ ParseEpisodes \/ ParseSeasons
    \/ ParseSeriesDetail \/ ParseSearchResults

ParserSpec == ParserInit /\ [][ParserNext]_vars

(* ------------------------------ claims -------------------------------- *)
RECURSIVE SumSeq(_)
SumSeq(q) == IF q = <<>> THEN 0 ELSE Head(q) + SumSeq(Tail(q))

Blank(query) == \A i \in 1..Len(query) : query[i] = " "
Retryable(s) == s = 429 \/ (500 <= s /\ s <= 599)
Done(t) == pc[t] = "done"
GotStatus(t) == outcome[t].kind = "status"
FullUrl(c) ==
    <<CSFD_BASE_URL>> \o
    (IF c.op \in {"search", "search_page"}
     THEN <<"/hledat/?q=">> \o [i \in 1..Len(Trim(c.query)) |->
                 IF Trim(c.query)[i] = " " THEN "%20" ELSE Trim(c.query)[i]]
          \o (IF c.page > 1 THEN <<"&page=", c.page>> ELSE <<>>)
     ELSE IF c.op = "get_series" THEN <<"/film/", c.id, "/prehled/">>
     ELSE IF c.op = "get_episodes" THEN <<"/film/", c.id, "/epizody/">>
     ELSE <<"/film/", c.id, "/", c.season, "/epizody/">>)

(* C1: the instants at which any two acquire() calls on the limiter return *)
(* are at least min_interval apart, in every interleaving of the callers:  *)
(* the time between two consecutive returns is never below min_interval.   *)
C1_MinSpacing == returns >= 2 => gap >= min_interval

(* two acquire() calls have returned, the holder of the lock sleeps in a   *)
(* third and another task queues for the lock                              *)
C1_Witness ==
    /\ returns >= 2
    /\ waiters # <<>>
    /\ \E p \in Procs : holder = <<p>> /\ pc[p] = "acquire_sleep"

(* C2: the first acquire() on a fresh limiter returns without sleeping,    *)
(* for every configured rate: while no acquire() has returned, no task is  *)
(* in the sleep of acquire().                                              *)
C2_FirstAcquireNoSleep ==
    returns = 0 => \A p \in Procs : pc[p] # "acquire_sleep"

(* the first acquire() has just returned *)
C2_Witness == returns = 1 /\ elapsed = 0 /\ since_return = 0

(* C3: every GET of a fetch, the first and each retry, is issued after an  *)
(* acquire() completed for that same attempt: a fetch never has more GETs  *)
(* than completed acquires, and while attempt k is in flight both counts   *)
(* are k + 1.                                                              *)
C3_AcquireBeforeGet ==
    \A t \in Callers :
        /\ gets[t] <= acquires[t]
        /\ pc[t] = "send" => acquires[t] = gets[t] + 1 /\ acquires[t] = attempt[t] + 1
        /\ pc[t] \in {"await", "text"} =>
              gets[t] = acquires[t] /\ gets[t] = attempt[t] + 1

(* the GET of a retry is in flight *)
C3_Witness == \E t \in Callers : pc[t] = "await" /\ attempt[t] >= 1 /\ gets[t] >= 2

(* C4: a 429 or 5xx on attempt k is retried iff k < MAX_RETRIES, after the *)
(* backoff sleep; a fetch that ends on a 429 has made exactly              *)
(* MAX_RETRIES + 1 attempts and fails with RateLimited, one that ends on a *)
(* 5xx has made exactly MAX_RETRIES + 1 attempts and fails with HttpError. *)
C4_RetryBudget ==
    \A t \in Callers :
        /\ pc[t] = "backoff" =>
              /\ attempt[t] < MAX_RETRIES
              /\ Retryable(outcome[t].code)
              /\ Len(backoffs[t]) = attempt[t] + 1
        /\ (GotStatus(t) /\ Retryable(outcome[t].code) /\ attempt[t] < MAX_RETRIES) =>
              ~Done(t)
        /\ (Done(t) /\ GotStatus(t) /\ Retryable(outcome[t].code)) =>
              /\ attempt[t] = MAX_RETRIES
              /\ gets[t] = MAX_RETRIES + 1
              /\ Len(backoffs[t]) = MAX_RETRIES
              /\ result[t].tag = IF outcome[t].code = 429 THEN "RateLimited" ELSE "HttpError"
        /\ gets[t] <= MAX_RETRIES + 1

(* every response was a 429 and the fetch has failed with RateLimited *)
C4_Witness ==
    \E t \in Callers :
        /\ Done(t) /\ result[t].tag = "RateLimited"
        /\ seen[t] = {429} /\ gets[t] = MAX_RETRIES + 1

(* C5: an attempt that receives a non-retryable status fails at once: a    *)
(* 404 gives NotFound with the full request URL, any other non-2xx status  *)
(* that is neither 429 nor 5xx gives HttpError.                            *)
C5_NonRetryableFailsAtOnce ==
    \A t \in Callers :
        (Done(t) /\ GotStatus(t) /\ ~Retryable(outcome[t].code)
                 /\ ~(200 <= outcome[t].code /\ outcome[t].code <= 299)) =>
            /\ outcome[t].code = 404 => result[t] = NotFound(FullUrl(call[t]))
            /\ outcome[t].code # 404 => result[t].tag = "HttpError"
            /\ Len(backoffs[t]) = attempt[t]
            /\ gets[t] = attempt[t] + 1

(* C6: a timeout on one attempt is retried like a 5xx: the fetch fails     *)
(* with HttpError on a transport error only once the retry budget is       *)
(* spent.                                                                  *)
C6_TimeoutRetried ==
    \A t \in Callers :
        (Done(t) /\ outcome[t].kind = "error") => attempt[t] = MAX_RETRIES

(* C7: the delay slept after failed attempt k is BASE_DELAY * 2^k, and the *)
(* backoff slept by one fetch is at most BASE_DELAY * (2^MAX_RETRIES - 1). *)
C7_BackoffSchedule ==
    \A t \in Callers :
        /\ \A k \in 1..Len(backoffs[t]) :
              backoffs[t][k] = BASE_RETRY_DELAY_MS * 2 ^ (k - 1)
        /\ SumSeq(backoffs[t]) <= BASE_RETRY_DELAY_MS * (2 ^ MAX_RETRIES - 1)
        /\ pc[t] = "backoff" => sleep_left[t] <= backoffs[t][Len(backoffs[t])]

(* a fetch has slept all three backoff delays *)
C7_Witness ==
    \E t \in Callers : backoffs[t] = <<1000, 2000, 4000>> /\ SumSeq(backoffs[t]) = 7000

(* C8: search and search_page with a query that is blank after trimming    *)
(* fail with InvalidUrl before any acquire() and any request.              *)
C8_BlankQueryRejected ==
    \A t \in Callers :
        (call[t].op \in {"search", "search_page"} /\ Blank(call[t].query)) =>
            /\ Done(t)
            /\ result[t] = InvalidUrl
            /\ acquires[t] = 0 /\ gets[t] = 0
            /\ holder # <<t>> /\ \A i \in 1..Len(waiters) : waiters[i] # t

(* a query of whitespace only has been rejected *)
C8_Witness ==
    \E t \in Callers :
        /\ call[t].op = "search_page" /\ call[t].query = <<" ", " ">>
        /\ Done(t) /\ result[t].tag = "InvalidUrl"

(* C9: get_series(0), get_episodes(0), get_season_episodes(0, x) and       *)
(* get_season_episodes(x, 0) fail with InvalidId carrying 0 before any     *)
(* acquire() and any request; non-zero ids never give InvalidId.           *)
ZeroId(c) ==
    \/ c.op \in {"get_series", "get_episodes"} /\ c.id = 0
    \/ c.op = "get_season_episodes" /\ (c.id = 0 \/ c.season = 0)

C9_ZeroIdRejected ==
    \A t \in Callers :
        /\ ZeroId(call[t]) =>
              /\ Done(t)
              /\ result[t] = InvalidId(0)
              /\ acquires[t] = 0 /\ gets[t] = 0
              /\ holder # <<t>> /\ \A i \in 1..Len(waiters) : waiters[i] # t
        /\ ~ZeroId(call[t]) => result[t].tag # "InvalidId"

(* get_season_episodes(x, 0) with x # 0 has been rejected *)
C9_Witness ==
    \E t \in Callers :
        /\ call[t].op = "get_season_episodes" /\ call[t].id # 0 /\ call[t].season = 0
        /\ Done(t) /\ result[t].tag = "InvalidId"

(* C10: a successful search_page(q, p) returns current_page = p, whatever  *)
(* page the pagination markup of the fetched document reports.             *)
C10_CurrentPageIsRequested ==
    \A t \in Callers :
        (call[t].op \in {"search", "search_page"} /\ Done(t) /\ result[t].tag = "Ok") =>
            result[t].current_page = call[t].page

(* the document reported another page than the one requested *)
C10_Witness ==
    \E t \in Callers :
        /\ call[t].op = "search_page" /\ call[t].page = 2
        /\ Done(t) /\ result[t].tag = "Ok"
        /\ extracted[t] = MaxPage + 1 /\ result[t].current_page = 2

(* C11: an operation that passes validation calls fetch exactly once; an   *)
(* error of fetch is returned as it is and no extractor runs; an error of  *)
(* the extractor is returned as it is.                                     *)
Validated(c) ==
    /\ c.op # "none"
    /\ ~ZeroId(c)
    /\ c.op \in {"search", "search_page"} => ~Blank(c.query)
IsError(r) == r.tag \notin {"none", "Ok"}

C11_FetchOnceErrorsUnchanged ==
    \A t \in Callers :
        /\ fetches[t] = (IF Validated(call[t]) THEN 1 ELSE 0)
        /\ (Done(t) /\ IsError(fetched[t])) =>
              result[t] = fetched[t] /\ parsed[t] = NoResult
        /\ parsed[t] # NoResult => fetched[t].tag = "Ok"
        /\ (Done(t) /\ IsError(parsed[t])) => result[t] = parsed[t]
        /\ (Done(t) /\ Validated(call[t])) => IsError(fetched[t]) \/ parsed[t] # NoResult

(* get_series fetched a page without a name after a retry, and returned    *)
(* the ElementNotFound of the extractor                                    *)
C11_Witness ==
    \E t \in Callers :
        /\ call[t].op = "get_series" /\ Done(t) /\ fetches[t] = 1 /\ attempt[t] >= 1
        /\ fetched[t].tag = "Ok" /\ parsed[t].tag = "ElementNotFound"
        /\ result[t] = parsed[t]

(* search_page got a 404 after a retry: the NotFound of fetch is returned, *)
(* no extractor ran                                                        *)
C11_WitnessFetchError ==
    \E t \in Callers :
        /\ call[t].op = "search_page" /\ Done(t) /\ fetches[t] = 1 /\ attempt[t] >= 1
        /\ fetched[t].tag = "NotFound" /\ result[t] = fetched[t]
        /\ parsed[t] = NoResult

(* C12: for a path with the marker /film/ followed by a component          *)
(* {n}-{slug}, extract_csfd_id returns n when the text before the first    *)
(* hyphen of the component is a number n > 0, whatever components follow,  *)
(* and nothing when that text is empty, is no number or is 0, or when the  *)
(* path has no marker. A number is a run of digits; the component is the   *)
(* one that follows the first marker of the path.                          *)
ComponentAfterMarker(href) ==
    Before(SubSeq(href, Find(href, FilmMarker)[1] + Len(FilmMarker), Len(href)), "/")
HasHyphen(segment) == \E i \in 1..Len(segment) : segment[i] = "-"
IsNumber(text) == text # <<>> /\ AllDigits(text)

C12_ExtractCsfdId ==
    parse_fn = "extract_csfd_id" =>
        IF ~Contains(parse_in, FilmMarker) THEN parse_out = None
        ELSE LET segment == ComponentAfterMarker(parse_in)
                 prefix == Before(segment, "-")
             IN  HasHyphen(segment) =>
                     IF IsNumber(prefix) /\ Decimal(prefix) > 0
                     THEN parse_out = Some(Decimal(prefix))
                     ELSE parse_out = None

(* C13: parse_episodes and parse_seasons return the records of the first   *)
(* strategy, in the order title blocks, containers, links, that yields a   *)
(* list that is not empty, and only those: no record of a later strategy   *)
(* is added, and a later strategy counts only when every earlier one       *)
(* yielded nothing.                                                        *)
EpisodeStrategies(document) ==
    <<FilterMap(EpisodesFromH3(document.title_blocks)),
      ScanContainers(document.tables),
      ScanElements(document.items, 1)>>
SeasonStrategies(document) ==
    <<CollectSeasons(<<>>, SeasonsFromH3(document.title_blocks)),
      ScanSeasonLists(document.season_lists),
      CollectSeasons(<<>>, SeasonsFromItems(document.season_links))>>

(* records is what the first strategy that yields anything yields *)
FirstNonEmpty(records, strategies) ==
    /\ \A k \in 1..3 :
          (strategies[k] # <<>> /\ \A j \in 1..(k - 1) : strategies[j] = <<>>) =>
              records = strategies[k]
    /\ (\A k \in 1..3 : strategies[k] = <<>>) => records = <<>>

C13_CascadePrecedence ==
    /\ parse_fn = "parse_episodes" =>
          /\ parse_out.tag = "Ok"
          /\ FirstNonEmpty(parse_out.value, EpisodeStrategies(parse_in))
    /\ parse_fn = "parse_seasons" =>
          FirstNonEmpty(parse_out, SeasonStrategies(parse_in))

(* every strategy of parse_episodes finds an episode in the document, the  *)
(* containers another one than the title blocks: the title blocks' alone   *)
(* is returned                                                             *)
C13_Witness ==
    /\ parse_fn = "parse_episodes"
    /\ \A k \in 1..3 : EpisodeStrategies(parse_in)[k] # <<>>
    /\ EpisodeStrategies(parse_in)[2][1].csfd_id # EpisodeStrategies(parse_in)[1][1].csfd_id
    /\ parse_out.value = EpisodeStrategies(parse_in)[1]
    /\ Len(parse_out.value) = 1

(* the title blocks of a season page yield nothing, its second container   *)
(* and its links do: the container's seasons are returned                  *)
C13_WitnessSeasons ==
    /\ parse_fn = "parse_seasons"
    /\ SeasonStrategies(parse_in)[1] = <<>>
    /\ SeasonStrategies(parse_in)[2] # <<>> /\ SeasonStrategies(parse_in)[3] # <<>>
    /\ SeasonStrategies(parse_in)[3][1].csfd_id # SeasonStrategies(parse_in)[2][1].csfd_id
    /\ parse_out = SeasonStrategies(parse_in)[2]

(* C14: parse_series_detail fails with ElementNotFound exactly when no     *)
(* selector of the name cascade finds text that is not blank; with a name  *)
(* it succeeds, and every other field is what its own cascade gives from   *)
(* its own part of the document, absent or empty when the cascade finds    *)
(* nothing, whatever the other cascades find.                              *)
NameFound(document) ==
    \E i \in 1..Len(document.names) :
        document.names[i] # None /\ ~Blank(document.names[i][1])
NoText(cascade) ==
    \A i \in 1..Len(cascade) : cascade[i] = None \/ Blank(cascade[i][1])
NoTexts(by_selector) ==
    \A i \in 1..Len(by_selector) :
        \A j \in 1..Len(by_selector[i]) : Blank(by_selector[i][j])

C14_NameIsMandatory ==
    parse_fn = "parse_series_detail" =>
        LET document == parse_in.document
            detail == parse_out.value
        IN  /\ parse_out.tag \in {"Ok", "ElementNotFound"}
            /\ parse_out.tag = "ElementNotFound" <=> ~NameFound(document)
            /\ parse_out.tag = "Ok" =>
                  /\ parse_out.id = parse_in.csfd_id
                  /\ detail.name # <<>> /\ ~Blank(detail.name)
                  /\ detail.original_name =
                        extract_original_name([EmptyDocument EXCEPT
                            !.original_names = document.original_names])
                  /\ detail.year_range =
                        extract_year_range([EmptyDocument EXCEPT !.years = document.years])
                  /\ detail.genres =
                        extract_genres([EmptyDocument EXCEPT !.genres = document.genres])
                  /\ detail.countries =
                        extract_countries([EmptyDocument EXCEPT
                            !.countries = document.countries, !.origin = document.origin])
                  /\ detail.seasons =
                        parse_seasons([EmptyDocument EXCEPT
                            !.title_blocks = document.title_blocks,
                            !.season_lists = document.season_lists,
                            !.season_links = document.season_links])
                  /\ NoText(document.original_names) => detail.original_name = None
                  /\ (\A i \in 1..Len(document.years) : document.years[i] = None) =>
                        detail.year_range = None
                  /\ NoTexts(document.genres) => detail.genres = <<>>
                  /\ (NoTexts(document.countries) /\ document.origin = None) =>
                        detail.countries = <<>>

(* only the last selector of the name cascade finds a name, every other    *)
(* cascade finds nothing: the detail is returned with the other fields     *)
(* absent or empty                                                         *)
C14_Witness ==
    /\ parse_fn = "parse_series_detail"
    /\ \A i \in 1..(NUM_NAME_SELECTORS - 1) : NoText(<<parse_in.document.names[i]>>)
    /\ parse_out.tag = "Ok" /\ parse_out.value.name = <<"a">>
    /\ parse_out.value.original_name = None /\ parse_out.value.year_range = None
    /\ parse_out.value.genres = <<>> /\ parse_out.value.countries = <<>>
    /\ parse_out.value.seasons = <<>>

(* a document whose name selectors find blank text only, and whose other   *)
(* cascades all find something, fails                                      *)
C14_WitnessNoName ==
    /\ parse_fn = "parse_series_detail"
    /\ \E i \in 1..NUM_NAME_SELECTORS : parse_in.document.names[i] # None
    /\ ~NoText(parse_in.document.original_names)
    /\ parse_in.document.genres # <<>> /\ parse_in.document.title_blocks # <<>>
    /\ parse_out = ElementNotFound

(* no selector finds a country link and the origin block has text before   *)
(* its first comma: that text is the only country, and the name is found   *)
C14_WitnessOrigin ==
    /\ parse_fn = "parse_series_detail"
    /\ parse_in.document.countries = <<>> /\ parse_in.document.origin # None
    /\ parse_out.tag = "Ok" /\ parse_out.value.countries = <<<<"a">>>>
    /\ parse_out.value.genres = <<<<"a">>, <<"b">>>>

(* C15: the list parse_seasons returns, and so the seasons of a series     *)
(* detail, holds no two seasons with the same id: it is the candidates of  *)
(* the winning strategy in document order, without every candidate whose   *)
(* id an earlier candidate has.                                            *)
NoDuplicateIds(seasons) ==
    \A i, j \in 1..Len(seasons) : seasons[i].csfd_id = seasons[j].csfd_id => i = j

(* the candidates that no earlier candidate shares the id of *)
FirstOccurrences(candidates) ==
    LET keep(i) == \A j \in 1..(i - 1) : candidates[j].csfd_id # candidates[i].csfd_id
        kept[i \in 0..Len(candidates)] ==
            IF i = 0 THEN <<>>
            ELSE IF keep(i) THEN Append(kept[i - 1], candidates[i]) ELSE kept[i - 1]
    IN  kept[Len(candidates)]

(* the candidate sequences of the strategies: the title blocks, every      *)
(* item selector of every container, the links                             *)
SeasonCandidateLists(document) ==
    {FilterMap(SeasonsFromH3(document.title_blocks)),
     FilterMap(SeasonsFromItems(document.season_links))}
    \cup {FilterMap(SeasonsFromItems(document.season_lists[i][k])) :
            i \in 1..Len(document.season_lists), k \in 1..3}

C15_SeasonsDeduplicated ==
    /\ parse_fn = "parse_seasons" =>
          /\ NoDuplicateIds(parse_out)
          /\ parse_out # <<>> =>
                \E candidates \in SeasonCandidateLists(parse_in) :
                    parse_out = FirstOccurrences(candidates)
          /\ \A k \in 1..3 :
                (SeasonStrategies(parse_in)[k] = parse_out /\ k # 2 /\
                 \A j \in 1..(k - 1) : SeasonStrategies(parse_in)[j] = <<>>) =>
                    parse_out = FirstOccurrences(
                        IF k = 1 THEN FilterMap(SeasonsFromH3(parse_in.title_blocks))
                        ELSE FilterMap(SeasonsFromItems(parse_in.season_links)))
    /\ (parse_fn = "parse_series_detail" /\ parse_out.tag = "Ok") =>
          /\ NoDuplicateIds(parse_out.value.seasons)
          /\ parse_out.value.seasons =
                FirstOccurrences(
                    FilterMap(SeasonsFromH3(parse_in.document.title_blocks)))

(* three title blocks with the ids 2, 3, 2 and the names a, a, b: the      *)
(* seasons 2 and 3 are returned, season 2 with the name a                  *)
C15_Witness ==
    /\ parse_fn = "parse_seasons"
    /\ Len(FilterMap(SeasonsFromH3(parse_in.title_blocks))) = 3
    /\ Len(parse_out) = 2
    /\ parse_out[1].csfd_id = 2 /\ parse_out[1].name = <<"a">>
    /\ parse_out[2].csfd_id = 3
    /\ FilterMap(SeasonsFromH3(parse_in.title_blocks))[3].name = <<"b">>

(* C16: no record an operation returns has the id 0: a search hit, a       *)
(* season or an episode whose link gives no positive id is left out of     *)
(* the list, and get_series(0) fails instead of returning a detail with    *)
(* the id 0.                                                               *)
PositiveIds(records) == \A i \in 1..Len(records) : records[i].csfd_id > 0

C16_NoZeroId ==
    \A t \in Callers :
        /\ (Done(t) /\ result[t].tag = "Ok") =>
              IF call[t].op = "get_series"
              THEN result[t].id > 0 /\ PositiveIds(result[t].value.seasons)
              ELSE PositiveIds(result[t].value)
        /\ (Done(t) /\ call[t].op = "get_series" /\ call[t].id = 0) =>
              result[t] = InvalidId(0)

(* a result page with two candidates, the first with the id 0 in its       *)
(* link: the search returns the second alone                               *)
C16_Witness ==
    \E t \in Callers :
        /\ call[t].op = "search" /\ Done(t) /\ result[t].tag = "Ok"
        /\ Len(result[t].value) = 1 /\ result[t].value[1].csfd_id = 1
        /\ parsed[t].value = FilterMap(SearchItems(SamplePage.articles))
        /\ Len(SamplePage.articles) = 2
        /\ extract_csfd_id(SamplePage.articles[1].link.href) = None

(* get_series of a page whose title blocks hold links with the ids 0 and   *)
(* 2: the detail has the id asked for and the season 2 alone               *)
C16_WitnessDetail ==
    \E t \in Callers :
        /\ call[t].op = "get_series" /\ Done(t) /\ result[t].tag = "Ok"
        /\ result[t].id = call[t].id
        /\ Len(result[t].value.seasons) = 1 /\ result[t].value.seasons[1].csfd_id = 2

(* get_episodes of the same page returns the episode 2 alone *)
C16_WitnessEpisodes ==
    \E t \in Callers :
        /\ call[t].op = "get_episodes" /\ Done(t) /\ result[t].tag = "Ok"
        /\ Len(result[t].value) = 1 /\ result[t].value[1].csfd_id = 2

(* C17: the episode_code of every episode parse_episodes returns is the    *)
(* letter S, the season_number of the record in two digits, the letter E   *)
(* and its episode_number in two digits.                                   *)
TwoDigitCode(episode) ==
    /\ Len(episode.episode_code) = 6
    /\ episode.episode_code[1] = "S" /\ episode.episode_code[4] = "E"
    /\ AllDigits(SubSeq(episode.episode_code, 2, 3))
    /\ AllDigits(SubSeq(episode.episode_code, 5, 6))
    /\ Decimal(SubSeq(episode.episode_code, 2, 3)) = episode.season_number
    /\ Decimal(SubSeq(episode.episode_code, 5, 6)) = episode.episode_number

C17_EpisodeCodeTwoDigits ==
    parse_fn = "parse_episodes" =>
        \A i \in 1..Len(parse_out.value) : TwoDigitCode(parse_out.value[i])

(* C18: parse_rating returns the percentage it finds in the text when that *)
(* lies between 0 and 100 and nothing otherwise, 150% included; so the     *)
(* rating of every episode is absent or between 0 and 100.                 *)
AbsentOrInRange(rating) == rating = None \/ InRange(rating[1])

C18_RatingInRange ==
    /\ parse_fn = "parse_rating" =>
          /\ AbsentOrInRange(parse_out)
          /\ RatingCaptures(parse_in) = None => parse_out = None
          /\ RatingCaptures(parse_in) # None =>
                LET found == RatingCaptures(parse_in)[1] IN
                IF found.num > 100 * found.den THEN parse_out = None
                ELSE parse_out = Some(found)
    /\ parse_fn = "parse_episodes" =>
          \A i \in 1..Len(parse_out.value) : AbsentOrInRange(parse_out.value[i].rating)

(* the text 150% holds the number 150: no rating *)
C18_Witness ==
    /\ parse_fn = "parse_rating" /\ parse_in = <<"1", "5", "0", "%">>
    /\ RatingCaptures(parse_in) = Some([num |-> 150, den |-> 1])
    /\ parse_out = None

(* 100% is a rating *)
C18_WitnessHundred ==
    /\ parse_fn = "parse_rating" /\ parse_in = <<"1", "0", "0", "%">>
    /\ parse_out = Some([num |-> 100, den |-> 1])

(* an episode whose row ends in 150% has no rating, one whose row ends in  *)
(* 85% has the rating 85                                                   *)
C18_WitnessEpisode ==
    /\ parse_fn = "parse_episodes" /\ Len(parse_out.value) = 1
    /\ parse_in.tables # <<>> /\ parse_in.tables[1] # <<>>
    /\ parse_in.tables[1][1].tail = <<"1", "5", "0", "%">>
    /\ parse_out.value[1].rating = None
C18_WitnessEpisodeRated ==
    /\ parse_fn = "parse_episodes" /\ Len(parse_out.value) = 1
    /\ parse_in.tables # <<>> /\ parse_in.tables[1] # <<>>
    /\ parse_in.tables[1][1].tail = <<"8", "5", "%">>
    /\ parse_out.value[1].rating = Some([num |-> 85, den |-> 1])

(* C19: when the future of a task is dropped while it waits for the lock   *)
(* of the limiter, sleeps in acquire(), awaits the response or sleeps in   *)
(* a backoff, the limiter stays valid: the lock is held only by a task     *)
(* that is inside acquire(), never by a dropped one, the tasks queued for  *)
(* it are the tasks waiting in lock(), a waiting task always has a holder  *)
(* in front of it that sleeps min_interval at most, the age of the stored  *)
(* instant is well-formed, and acquire() returns stay min_interval apart.  *)
InAcquire(p) == pc[p] \in {"locked", "acquire_sleep"}

C19_CancelSafe ==
    /\ \A p \in Procs : InAcquire(p) <=> holder = <<p>>
    /\ holder = <<>> \/ \E p \in Procs : holder = <<p>>
    /\ \A p \in Procs :
          pc[p] = "lock_wait" <=> \E i \in 1..Len(waiters) : waiters[i] = p
    /\ \A i, j \in 1..Len(waiters) : waiters[i] = waiters[j] => i = j
    /\ waiters # <<>> => holder # <<>>
    /\ \A p \in Procs : holder = <<p>> => sleep_left[p] <= min_interval
    /\ \A p \in Procs : pc[p] = "cancelled" => sleep_left[p] = 0
    /\ elapsed \in 0..min_interval
    /\ returns >= 2 => gap >= min_interval

(* the caller was dropped in the sleep of acquire(): the lock is with      *)
(* another task, which finds the instant as the caller left it             *)
C19_Witness ==
    /\ dropped_at[0] = "acquire_sleep" /\ pc[0] = "cancelled"
    /\ \E a \in Acquirers : holder = <<a>> /\ pc[a] = "locked" /\ elapsed < min_interval

(* the caller was dropped waiting for the lock; the task that held it      *)
(* went through its sleep and returned, min_interval after the return      *)
(* before                                                                  *)
C19_WitnessLockWait ==
    /\ dropped_at[0] = "lock_wait" /\ pc[0] = "cancelled"
    /\ holder = <<>> /\ waiters = <<>> /\ returns = 2 /\ gap = min_interval

(* dropped during the request, and dropped during a backoff sleep *)
C19_WitnessAwait ==
    /\ dropped_at[0] \in {"await", "text"} /\ pc[0] = "cancelled"
    /\ \E a \in Acquirers : holder = <<a>>
C19_WitnessBackoff ==
    /\ dropped_at[0] = "backoff" /\ pc[0] = "cancelled"
    /\ \E a \in Acquirers : holder = <<a>>

(* C20: the secondary strategy of parse_episodes goes through the rows of  *)
(* a container in document order with a current season that starts at 1;   *)
(* every row that has a header cell or a season word in its text sets the  *)
(* current season and is not returned as an episode; every other row that  *)
(* parses as an episode and has no episode code gets the current season.   *)
MatchesSeasonHeader(row) ==
    row.header_cell \/ Contains(ElementText(row), <<"season">>)

(* the episodes of the rows when every row that matches is passed over *)
RECURSIVE HeaderScan(_, _)
HeaderScan(rows, current_season) ==
    IF rows = <<>> THEN <<>>
    ELSE IF MatchesSeasonHeader(Head(rows))
    THEN HeaderScan(Tail(rows),
                    UnwrapOr(extract_season_number_from_text(ElementText(Head(rows))),
                             current_season))
    ELSE IF parse_episode_row(Head(rows), current_season) # None
    THEN <<parse_episode_row(Head(rows), current_season)[1]>>
         \o HeaderScan(Tail(rows), current_season)
    ELSE HeaderScan(Tail(rows), current_season)

C20_SeasonHeaderRows ==
    (/\ parse_fn = "parse_episodes"
     /\ parse_in.title_blocks = <<>> /\ parse_in.items = <<>>
     /\ Len(parse_in.tables) = 1) =>
        parse_out.value = HeaderScan(parse_in.tables[1], 1)

(* C21: the tertiary strategy of parse_episodes counts only when the title *)
(* blocks and the containers gave no episode; it goes through the elements *)
(* in document order, the episodes returned are those of the elements that *)
(* parse, in that order, and an episode in whose text no episode code is   *)
(* found has the season_number of the episode returned before it, 1 when   *)
(* it is the first; one with a code has the season of its code.            *)
EmittingItems(items) ==
    {i \in 1..Len(items) : parse_episode_element(items[i], 1) # None}

(* the k-th of the elements that parse *)
NthEmitting(items, k) ==
    CHOOSE i \in EmittingItems(items) :
        Cardinality({j \in EmittingItems(items) : j <= i}) = k

NoCodeIn(el) == parse_episode_code(Trim(ElementText(el))) = None

C21_TertiaryCarriesSeason ==
    parse_fn = "parse_episodes" =>
        LET strategies == EpisodeStrategies(parse_in)
            out == parse_out.value
            items == parse_in.items
        IN  /\ strategies[1] # <<>> => out = strategies[1]
            /\ (strategies[1] = <<>> /\ strategies[2] # <<>>) => out = strategies[2]
            /\ (strategies[1] = <<>> /\ strategies[2] = <<>>) =>
                  /\ Len(out) = Cardinality(EmittingItems(items))
                  /\ \A k \in 1..Len(out) :
                        LET el == items[NthEmitting(items, k)] IN
                        /\ out[k].url = el.link.href
                        /\ out[k] = parse_episode_element(el, out[k].season_number)[1]
                        /\ NoCodeIn(el) =>
                              out[k].season_number =
                                  (IF k = 1 THEN 1 ELSE out[k - 1].season_number)
                        /\ ~NoCodeIn(el) =>
                              out[k].season_number =
                                  parse_episode_code(Trim(ElementText(el)))[1][1]

(* three links: one with the code S04E05, one that is no link, one without *)
(* a code after the words season 2: two episodes, both of season 4         *)
C21_Witness ==
    /\ parse_fn = "parse_episodes"
    /\ parse_in.title_blocks = <<>> /\ parse_in.tables = <<>>
    /\ Len(parse_in.items) = 3
    /\ ~parse_in.items[2].link.present
    /\ parse_in.items[3].lead = <<"season", " ", "2">>
    /\ Len(parse_out.value) = 2
    /\ parse_out.value[1].season_number = 4 /\ parse_out.value[1].episode_number = 5
    /\ parse_out.value[2].season_number = 4 /\ parse_out.value[2].episode_number = 1

(* a link without a code comes first: it is of season 1, and the link with *)
(* the code 2x15 after it of season 2                                      *)
C21_WitnessFirst ==
    /\ parse_fn = "parse_episodes"
    /\ Len(parse_in.items) = 2 /\ Len(parse_out.value) = 2
    /\ parse_out.value[1].season_number = 1
    /\ parse_out.value[2].season_number = 2 /\ parse_out.value[2].episode_number = 15

(* C22: when an attempt of a fetch, the first or a retry, receives a 2xx   *)
(* response, fetch returns the text of the body of that response, with no  *)
(* further request and no further sleep, and the 429 and 5xx failures of   *)
(* the attempts before are not reported.                                   *)
GotSuccess(t) == 200 <= outcome[t].code /\ outcome[t].code <= 299

C22_SuccessReturnsBody ==
    \A t \in Callers :
        (Done(t) /\ GotSuccess(t)) =>
            /\ fetched[t].tag = "Ok"
            /\ result[t].tag \notin {"RateLimited", "HttpError", "NotFound"}
            /\ gets[t] = attempt[t] + 1
            /\ Len(backoffs[t]) = attempt[t]

(* what the code does: the fetch ends with the attempt that received the   *)
(* 2xx, its earlier failures are not reported, and it returns the text of  *)
(* the body when the body can be read and a HttpError when it cannot       *)
SuccessEndsFetch ==
    \A t \in Callers :
        /\ pc[t] = "text" => GotStatus(t) /\ GotSuccess(t)
        /\ (Done(t) /\ GotSuccess(t)) =>
              /\ gets[t] = attempt[t] + 1
              /\ Len(backoffs[t]) = attempt[t]
              /\ sleep_left[t] = 0
              /\ IF GotStatus(t)
                 THEN /\ fetched[t].tag = "Ok"
                      /\ parsed[t] # NoResult
                      /\ result[t] = Finish(call[t], parsed[t])
                      /\ result[t].tag \notin {"RateLimited", "HttpError", "NotFound"}
                 ELSE /\ fetched[t] = HttpError
                      /\ result[t] = HttpError
                      /\ parsed[t] = NoResult

(* a 429 and a 503 were answered with a backoff each, the third attempt    *)
(* got a 200: the operation returned what its extractor made of the body   *)
SuccessAfterFailures ==
    \E t \in Callers :
        /\ Done(t) /\ GotStatus(t) /\ outcome[t].code = 200
        /\ seen[t] = {429, 503} /\ attempt[t] = 2 /\ gets[t] = 3
        /\ backoffs[t] = <<1000, 2000>>
        /\ fetched[t].tag = "Ok" /\ result[t].tag = "Ok"

(* the body of the 200 of a retry could not be read *)
BodyReadFails ==
    \E t \in Callers :
        /\ Done(t) /\ outcome[t] = [kind |-> "error", code |-> 200]
        /\ attempt[t] >= 1 /\ seen[t] # {}
        /\ result[t] = HttpError

(* C23: search_page requests the listing path of the URL-encoded trimmed   *)
(* query, with a page parameter exactly when page > 1: for the pages 0 and *)
(* 1 the path is the same and has no page parameter; search(query)         *)
(* requests the path of search_page(query, 1).                             *)
PercentEncoded(text) ==
    [i \in 1..Len(text) |-> IF text[i] = " " THEN "%20" ELSE text[i]]

(* the listing url of a query, without a page parameter *)
ListingUrl(query) ==
    <<CSFD_BASE_URL, "/hledat/?q=">> \o PercentEncoded(Trim(query))

(* the parameter stands last but one, before the number of the page *)
HasPageParameter(u) == Len(u) >= 2 /\ u[Len(u) - 1] = "&page="

C23_SearchPath ==
    \A t \in Callers :
        call[t].op \in {"search", "search_page"} =>
            /\ call[t].op = "search" => call[t].page = 1
            /\ Blank(call[t].query) => url[t] = <<>>
            /\ ~Blank(call[t].query) =>
                  /\ HasPageParameter(url[t]) <=> call[t].page > 1
                  /\ call[t].page \in {0, 1} => url[t] = ListingUrl(call[t].query)
                  /\ call[t].page > 1 =>
                        url[t] = ListingUrl(call[t].query) \o <<"&page=", call[t].page>>
                  /\ \A i \in 1..Len(ListingUrl(call[t].query)) : url[t][i] # " "

(* search_page with page 0 and a query with whitespace at its end and in   *)
(* it: the request goes to the path of the trimmed, encoded query, without *)
(* a page parameter                                                        *)
C23_Witness ==
    \E t \in Callers :
        /\ call[t].op = "search_page" /\ call[t].page = 0
        /\ call[t].query = SpacedQuery
        /\ gets[t] >= 1
        /\ url[t] = <<CSFD_BASE_URL, "/hledat/?q=", "a", "%20", "a">>

(* search sends what search_page sends for page 1, and page 2 has the      *)
(* parameter                                                               *)
C23_WitnessSearch ==
    \E t \in Callers :
        /\ call[t].op = "search" /\ call[t].query = <<"a", " ">>
        /\ gets[t] >= 1 /\ url[t] = <<CSFD_BASE_URL, "/hledat/?q=", "a">>
C23_WitnessPageOne ==
    \E t \in Callers :
        /\ call[t].op = "search_page" /\ call[t].page = 1 /\ call[t].query = <<"a", " ">>
        /\ gets[t] >= 1 /\ url[t] = <<CSFD_BASE_URL, "/hledat/?q=", "a">>
C23_WitnessPageTwo ==
    \E t \in Callers :
        /\ call[t].op = "search_page" /\ call[t].page = 2
        /\ gets[t] >= 1 /\ url[t] = <<CSFD_BASE_URL, "/hledat/?q=", "a", "&page=", 2>>

(* C24: parse_search_results sets has_next_page exactly when one of the    *)
(* next-page selector patterns matches an element that is not marked       *)
(* disabled; a document whose only next-page element is marked disabled    *)
(* gives has_next_page = false, under every one of the patterns.           *)
(* the element is what pattern k looks for, disabled or not *)
IsNextLinkOf(k, el) ==
    IF k = 1 THEN el.in_pagination /\ el.class_next
    ELSE IF k = 2 THEN el.in_paging /\ el.anchor /\ el.class_next
    ELSE IF k = 3 THEN el.anchor /\ el.rel_next
    ELSE el.class_pagination_next

C24_HasNextPage ==
    parse_fn = "parse_search_results" =>
        /\ parse_out.has_next_page <=>
              \E i \in 1..Len(parse_in.next_links) :
                  /\ ~parse_in.next_links[i].disabled
                  /\ \E k \in 1..NUM_NEXT_SELECTORS :
                        IsNextLinkOf(k, parse_in.next_links[i])
        /\ (Len(parse_in.next_links) = 1 /\ parse_in.next_links[1].disabled) =>
              ~parse_out.has_next_page

(* what the code does: the patterns .pagination .next and .pagination-next *)
(* pass over a disabled element, the patterns .paging a.next and           *)
(* a[rel='next'] take it                                                   *)
NextPageByPattern ==
    parse_fn = "parse_search_results" =>
        parse_out.has_next_page <=>
            \E i \in 1..Len(parse_in.next_links) :
                \/ /\ ~parse_in.next_links[i].disabled
                   /\ IsNextLinkOf(1, parse_in.next_links[i])
                         \/ IsNextLinkOf(4, parse_in.next_links[i])
                \/ IsNextLinkOf(2, parse_in.next_links[i])
                \/ IsNextLinkOf(3, parse_in.next_links[i])

(* the only element of the pagination markup is a disabled a.next inside   *)
(* .paging: has_next_page is true                                          *)
DisabledNextTaken ==
    /\ parse_fn = "parse_search_results"
    /\ parse_in.next_links =
          <<NextLink(TRUE, TRUE, FALSE, FALSE, TRUE, FALSE, TRUE)>>
    /\ parse_out.has_next_page

(* a disabled .next inside .pagination is passed over, and a page without  *)
(* pagination markup has no next page                                      *)
DisabledNextPassedOver ==
    /\ parse_fn = "parse_search_results"
    /\ parse_in.next_links =
          <<NextLink(TRUE, TRUE, FALSE, FALSE, TRUE, TRUE, FALSE)>>
    /\ ~parse_out.has_next_page
NoMarkupNoNextPage ==
    /\ parse_fn = "parse_search_results"
    /\ parse_in.next_links = <<>> /\ ~parse_out.has_next_page

(* --------------------------- fair scheduling --------------------------- *)
(* the steps a task takes inside acquire() once it has the lock *)
AcquireStep(p) == AcquireNoWait(p) \/ AcquireSleep(p) \/ AcquireWake(p)

(* the steps of fetch_with_retry after acquire(): the request, what comes  *)
(* back for it (a response, or the error the timeout of the client ends    *)
(* the wait with), the text of the response, the retry after the backoff   *)
FetchStep(t) ==
    \/ Send(t) \/ SendError(t) \/ RespSuccess(t) \/ TextError(t) \/ TextOk(t)
    \/ RespNotFound(t) \/ RespTooManyRequests(t) \/ RespServerError(t)
    \/ RespOther(t) \/ Retry(t)

(* one get_episodes operation next to the tasks that call acquire() *)
FairNext ==
    \/ Tick
    \/ \E p \in Procs : Acquire(p) \/ AcquireStep(p) \/ Cancel(p)
    \/ \E t \in Callers : GetEpisodes(t) \/ FetchStep(t)

(* The runtime polls every task that can go on and fires every timer, and  *)
(* the lock of tokio is handed on in the order of the lock() calls.  No    *)
(* task has to call acquire(), the caller need not call the API, no future *)
(* has to be dropped.                                                      *)
Fairness ==
    /\ WF_vars(Tick)
    /\ \A p \in Procs : WF_vars(AcquireStep(p))
    /\ \A t \in Callers : WF_vars(FetchStep(t))

FairSpec == Init /\ [][FairNext]_vars /\ Fairness

(* a fetch is under way *)
Fetching(t) ==
    pc[t] \in {"lock_wait", "locked", "acquire_sleep", "send", "await", "text", "backoff"}

(* the future of the operation was dropped *)
Dropped(t) == pc[t] = "cancelled"

Mixed(t) == 429 \in seen[t] /\ \E s \in seen[t] : is_server_error(s)

(* the retry budget of a fetch is spent: its last response, a 429 or a     *)
(* 5xx, came on attempt MAX_RETRIES                                        *)
Exhausted(t) ==
    /\ Done(t) /\ GotStatus(t) /\ Retryable(outcome[t].code)
    /\ attempt[t] = MAX_RETRIES

(* C26: when a fetch spends its retry budget, the error depends on the     *)
(* last response alone: RateLimited if it was a 429, HttpError if it was a *)
(* 5xx, whatever the earlier responses were.                               *)
C26_LastResponseDecides ==
    \A t \in Callers :
        Exhausted(t) =>
            /\ outcome[t].code = 429 => result[t] = RateLimited /\ fetched[t] = RateLimited
            /\ is_server_error(outcome[t].code) =>
                  result[t] = HttpError /\ fetched[t] = HttpError

(* earlier responses 429 and 5xx, the fourth a 5xx: HttpError *)
C26_Witness ==
    \E t \in Callers :
        /\ Exhausted(t) /\ Mixed(t) /\ gets[t] = MAX_RETRIES + 1
        /\ is_server_error(outcome[t].code) /\ result[t] = HttpError

(* earlier responses 429 and 5xx, the fourth a 429: RateLimited *)
C26_WitnessRateLimited ==
    \E t \in Callers :
        /\ Exhausted(t) /\ Mixed(t) /\ gets[t] = MAX_RETRIES + 1
        /\ outcome[t].code = 429 /\ result[t] = RateLimited

(* every earlier response a 5xx, the fourth a 429: RateLimited *)
C26_WitnessOnly5xxBefore ==
    \E t \in Callers :
        /\ Exhausted(t) /\ seen[t] = {503}
        /\ outcome[t].code = 429 /\ result[t] = RateLimited

(* a fetch is past acquire(): about to send, awaiting the response or its  *)
(* text, or in its backoff sleep                                           *)
PastAcquire(t) == pc[t] \in {"send", "await", "text", "backoff"}

InQueue(p) == \E i \in 1..Len(waiters) : waiters[i] = p

(* C27: the lock of the limiter is held only inside acquire(), the wait of *)
(* acquire() included, and never during the request or the backoff sleep   *)
(* of a fetch: while a fetch is past acquire(), another task that has the  *)
(* lock can go on in acquire(), sleeps min_interval at most, and a task    *)
(* queued for the lock waits for a task inside acquire(), not for the      *)
(* fetch.                                                                  *)
C27_LockOnlyInAcquire ==
    /\ \A p \in Procs : holder = <<p>> <=> InAcquire(p)
    /\ \A t \in Callers :
          PastAcquire(t) =>
              /\ holder # <<t>> /\ ~InQueue(t)
              /\ \A a \in Procs \ {t} :
                    /\ pc[a] = "locked" => ENABLED AcquireStep(a)
                    /\ pc[a] = "acquire_sleep" => sleep_left[a] <= min_interval
                    /\ pc[a] = "lock_wait" =>
                          \E h \in Procs \ {t} : holder = <<h>> /\ InAcquire(h)

(* the acquire() of another task has returned during the backoff sleep of  *)
(* a fetch: time has passed in the sleep, none since the latest return     *)
C27_Witness ==
    \E t \in Callers :
        /\ pc[t] = "backoff" /\ acquires[t] = 1
        /\ sleep_left[t] < backoffs[t][Len(backoffs[t])]
        /\ returns >= 2 /\ since_return = 0 /\ gap >= min_interval

(* another task has the lock while the fetch awaits its response *)
C27_WitnessAwait ==
    \E t \in Callers : \E a \in Acquirers :
        pc[t] = "await" /\ holder = <<a>> /\ pc[a] = "locked"

(* another task sleeps in acquire() while the fetch sleeps in its backoff *)
C27_WitnessBothSleep ==
    \E t \in Callers : \E a \in Acquirers :
        pc[t] = "backoff" /\ sleep_left[t] > 0 /\ pc[a] = "acquire_sleep"

(* a task has called acquire() and has not returned from it *)
InAcquireCall(p) == pc[p] \in {"lock_wait", "locked", "acquire_sleep"}

(* the wait left to the holder of the lock *)
HolderWait == IF holder = <<>> THEN 0 ELSE sleep_left[holder[1]]

(* C28: under fair scheduling every task that calls acquire() on the       *)
(* shared limiter returns from it (unless its future is dropped), whatever *)
(* the other tasks do: the lock always has a holder inside acquire() when  *)
(* a task queues for it, the holder waits min_interval at most, and a task *)
(* in acquire() leads to the same task out of it.                          *)
C28_AcquireReturns ==
    /\ [](/\ HolderWait <= min_interval
          /\ waiters # <<>> => \E h \in Procs : holder = <<h>> /\ InAcquire(h) /\ ~InQueue(h)
          /\ \A p \in Procs : pc[p] = "lock_wait" <=> InQueue(p))
    /\ \A p \in Procs : InAcquireCall(p) ~> ~InAcquireCall(p)

(* every task is in acquire() at once: one sleeps with the lock, the       *)
(* others queue behind it                                                  *)
C28_Witness ==
    /\ \A p \in Procs : InAcquireCall(p)
    /\ \E h \in Procs : holder = <<h>> /\ pc[h] = "acquire_sleep" /\ sleep_left[h] > 0
    /\ Len(waiters) = Cardinality(Procs) - 1

(* ---------------------- csfd-tauri: the commands ---------------------- *)
(* A command is a task: `let scraper = state.scraper().lock().await;`,     *)
(* then the operation of the scraper, awaited, then map_err and the return *)
(* that drops the guard `scraper`.  The operation is followed through its  *)
(* suspension points: the validation before the first of them, the wait of *)
(* the rate limiter, the request, the backoff sleep.                       *)
SetCommand(c, r) == command' = [command EXCEPT ![c] = r]

(* a guard that excludes nobody *)
ScraperLockShared(c, op_call) ==
    /\ scraper_guard' = <<c>>
    /\ scraper_queue' = scraper_queue
    /\ SetCommand(c, [NoCommand EXCEPT !.call = op_call, !.pc = "operation"])

(* state.scraper().lock().await: the guard is taken, or the command queues *)
ScraperLock(c, op_call) ==
    IF scraper_guard = <<>>
    THEN /\ scraper_guard' = <<c>>
         /\ scraper_queue' = scraper_queue
         /\ SetCommand(c, [NoCommand EXCEPT !.call = op_call, !.pc = "operation"])
    ELSE /\ scraper_guard' = scraper_guard
         /\ scraper_queue' = Append(scraper_queue, c)
         /\ SetCommand(c, [NoCommand EXCEPT !.call = op_call, !.pc = "lock_wait"])

bridge_outside == <<scraper_vars, parser_vars>>

search_series(c) ==
    /\ command[c].pc = "idle"
    /\ \E query \in CommandQueries :
          ScraperLock(c, [NoCall EXCEPT !.op = "search", !.query = query, !.page = 1])
    /\ UNCHANGED bridge_outside

search_series_page(c) ==
    /\ command[c].pc = "idle"
    /\ \E query \in CommandQueries, page \in CommandPages :
          ScraperLock(c, [NoCall EXCEPT !.op = "search_page", !.query = query,
                                        !.page = page])
    /\ UNCHANGED bridge_outside

get_series_detail(c) ==
    /\ command[c].pc = "idle"
    /\ \E csfd_id \in CommandIds :
          ScraperLock(c, [NoCall EXCEPT !.op = "get_series", !.id = csfd_id])
    /\ UNCHANGED bridge_outside

get_episodes(c) ==
    /\ command[c].pc = "idle"
    /\ \E csfd_id \in CommandIds :
          ScraperLock(c, [NoCall EXCEPT !.op = "get_episodes", !.id = csfd_id])
    /\ UNCHANGED bridge_outside

get_season_episodes(c) ==
    /\ command[c].pc = "idle"
    /\ \E series_id \in CommandIds, season_id \in CommandIds :
          ScraperLock(c, [NoCall EXCEPT !.op = "get_season_episodes",
                                        !.id = series_id, !.season = season_id])
    /\ UNCHANGED bridge_outside

(* the check an operation makes before its fetch *)
PassesValidation(c) ==
    IF c.op \in {"search", "search_page"} THEN Trim(c.query) # <<>>
    ELSE IF c.op = "get_season_episodes" THEN IdValid(c.id) /\ IdValid(c.season)
    ELSE IdValid(c.id)

(* the operation has returned r; map_err, and the command returns: the     *)
(* guard is dropped and the lock goes to the longest-waiting command       *)
CommandReturn(c, r) ==
    IF scraper_queue = <<>>
    THEN /\ scraper_guard' = <<>>
         /\ scraper_queue' = scraper_queue
         /\ SetCommand(c, [command[c] EXCEPT !.pc = "returned", !.returned = r])
    ELSE /\ scraper_guard' = <<Head(scraper_queue)>>
         /\ scraper_queue' = Tail(scraper_queue)
         /\ command' = [command EXCEPT
                           ![c] = [@ EXCEPT !.pc = "returned", !.returned = r],
                           ![Head(scraper_queue)] = [@ EXCEPT !.pc = "operation"]]

(* the command has the guard and calls the operation, which validates its  *)
(* arguments and calls fetch, up to acquire()                              *)
OperationStart(c) ==
    /\ command[c].pc = "operation"
    /\ IF PassesValidation(command[c].call)
       THEN /\ SetCommand(c, [command[c] EXCEPT !.pc = "acquire"])
            /\ UNCHANGED <<scraper_guard, scraper_queue>>
       ELSE CommandReturn(c, "Err")
    /\ UNCHANGED bridge_outside

(* acquire() returns after its wait, and the request is sent *)
OperationSend(c) ==
    /\ command[c].pc = "acquire"
    /\ SetCommand(c, [command[c] EXCEPT !.pc = "request"])
    /\ UNCHANGED <<scraper_guard, scraper_queue, bridge_outside>>

(* a transport error, or a response: the text of a 2xx goes to the         *)
(* extractor, a 429 or 5xx is retried after a backoff sleep while          *)
(* attempt < MAX_RETRIES, anything else is an error                        *)
OperationResponse(c) ==
    /\ command[c].pc = "request"
    /\ \/ CommandReturn(c, "Err")
       \/ \E s \in StatusCodes :
             IF is_success(s)
             THEN \E r \in {"Ok", "Err"} : CommandReturn(c, r)
             ELSE IF (s = 429 \/ is_server_error(s)) /\ MayRetry(command[c].attempt)
             THEN /\ SetCommand(c, [command[c] EXCEPT !.pc = "backoff"])
                  /\ UNCHANGED <<scraper_guard, scraper_queue>>
             ELSE CommandReturn(c, "Err")
    /\ UNCHANGED bridge_outside

(* the backoff sleep is over: the next attempt, up to acquire() *)
OperationRetry(c) ==
    /\ command[c].pc = "backoff"
    /\ SetCommand(c, [command[c] EXCEPT !.pc = "acquire", !.attempt = @ + 1])
    /\ UNCHANGED <<scraper_guard, scraper_queue, bridge_outside>>

BridgeNext ==
    \E c \in Commands :
        \/ search_series(c) \/ search_series_page(c) \/ get_series_detail(c)
        \/ get_episodes(c) \/ get_season_episodes(c)
        \/ OperationStart(c) \/ OperationSend(c) \/ OperationResponse(c)
        \/ OperationRetry(c)

BridgeSpec == Init /\ [][BridgeNext]_vars

(* the operation of a command is in progress: called and not returned *)
InOperation(c) == command[c].pc \in {"operation", "acquire", "request", "backoff"}

Queued(c) == \E i \in 1..Len(scraper_queue) : scraper_queue[i] = c

(* C29: every command holds the lock of ScraperState from before it calls  *)
(* the operation until the operation has returned, through validation,     *)
(* rate-limit wait, request, retries and backoff sleeps: a command whose   *)
(* operation is in progress holds the guard, at most one operation is in   *)
(* progress, and a command invoked meanwhile is queued with its operation  *)
(* not started.                                                            *)
C29_OneOperationAtATime ==
    /\ \A c \in Commands : InOperation(c) <=> scraper_guard = <<c>>
    /\ Cardinality({c \in Commands : InOperation(c)}) <= 1
    /\ \A c \in Commands : command[c].pc = "lock_wait" <=> Queued(c)
    /\ scraper_queue # <<>> => \E c \in Commands : InOperation(c)

(* one command is in the backoff sleep of a retry, the other was invoked   *)
(* meanwhile and waits for the lock                                        *)
C29_Witness ==
    \E c, d \in Commands :
        /\ c # d
        /\ command[c].pc = "backoff" /\ command[c].attempt >= 1
        /\ scraper_guard = <<c>> /\ command[d].pc = "lock_wait"

(* the operation of one command runs after the other command has returned *)
C29_WitnessAfterReturn ==
    \E c, d \in Commands :
        /\ c # d
        /\ command[c].pc = "returned" /\ command[c].returned = "Ok"
        /\ command[d].pc = "request" /\ scraper_guard = <<d>>

(* the link has the form /film/{show}-{slug}/{episode}-{slug}/ *)
IsNestedLink(href) == extract_episode_id(href) # None

(* the strategy whose records parse_episodes returned: 1, 2 or 3 *)
StrategyUsed(document) ==
    IF EpisodeStrategies(document)[1] # <<>> THEN 1
    ELSE IF EpisodeStrategies(document)[2] # <<>> THEN 2
    ELSE 3

(* C30: the id of an episode whose link has the form                       *)
(* /film/{show}-{slug}/{episode}-{slug}/ is the nested episode id,         *)
(* whichever strategy of parse_episodes produced the record, so that two   *)
(* records with different links of that form have different ids.           *)
C30_EpisodeIdIsNestedId ==
    parse_fn = "parse_episodes" =>
        LET out == parse_out.value IN
        /\ \A k \in 1..Len(out) :
              IsNestedLink(out[k].url) =>
                  out[k].csfd_id = extract_episode_id(out[k].url)[1]
        /\ \A j, k \in 1..Len(out) :
              (IsNestedLink(out[j].url) /\ IsNestedLink(out[k].url)
                  /\ extract_episode_id(out[j].url) # extract_episode_id(out[k].url)) =>
                  out[j].csfd_id # out[k].csfd_id

(* what the strategies do: the first gives the nested id, the second and   *)
(* the third the id of the first segment after /film/, the show            *)
EpisodeIdByStrategy ==
    parse_fn = "parse_episodes" =>
        LET out == parse_out.value IN
        \A k \in 1..Len(out) :
            /\ out[k].csfd_id > 0
            /\ StrategyUsed(parse_in) = 1 =>
                  out[k].csfd_id = extract_episode_id(out[k].url)[1]
            /\ StrategyUsed(parse_in) \in {2, 3} =>
                  out[k].csfd_id = extract_csfd_id(out[k].url)[1]

(* the link /film/1-a/2-b/ in an h3: the id is 2 *)
NestedIdFromH3 ==
    /\ parse_fn = "parse_episodes" /\ StrategyUsed(parse_in) = 1
    /\ Len(parse_out.value) = 1
    /\ parse_out.value[1].url = NestedHref(1, 2) /\ parse_out.value[1].csfd_id = 2

(* the same link in a table row: the id is 1 *)
ShowIdFromRow ==
    /\ parse_fn = "parse_episodes" /\ StrategyUsed(parse_in) = 2
    /\ Len(parse_out.value) = 1
    /\ parse_out.value[1].url = NestedHref(1, 2) /\ parse_out.value[1].csfd_id = 1

(* two episode links of one show found directly: both records have id 1 *)
SameIdForTwoEpisodes ==
    /\ parse_fn = "parse_episodes" /\ StrategyUsed(parse_in) = 3
    /\ Len(parse_out.value) = 2
    /\ parse_out.value[1].url = NestedHref(1, 2) /\ parse_out.value[2].url = NestedHref(1, 3)
    /\ parse_out.value[1].csfd_id = 1 /\ parse_out.value[2].csfd_id = 1

====
